---- MODULE Spec2Model ----
(***************************************************************************)
(* Model of the bounded-concurrency batch processors of scry-node:         *)
(* processStoriesInParallelBatches / processStoriesInBatches (component    *)
(* inspection), with the per-batch task processSingleBatch, the batch      *)
(* operation batchInspectMultipleComponents and the item operation         *)
(* inspectComponent.  One behaviour of the model is one call of one of     *)
(* the two entry functions.  External calls return in any order; what they *)
(* return (success or failure) is chosen when they return and recorded.    *)
(* JavaScript runs each synchronous segment to completion: an action is    *)
(* one such segment, from one suspension point (await) to the next.        *)
(***************************************************************************)
EXTENDS Integers, Sequences, FiniteSets, TLC

\* ---- bounds of the model -------------------------------------------------
MaxItems == 4
MaxBatchSize == 2
MaxConcurrent == 2

\* ---- program constants ---------------------------------------------------
\* default of the delayBetweenBatches option (ms)
DefaultDelayBetweenBatches == 100
\* the delayBetweenRequests analyzeStorybook passes to the inspection (ms)
InspectionDelayBetweenRequests == 1000

VARIABLES
  stories,            \* the input array: <<[id, hasShot]>>, id = input position
  cfg,                \* the options object of the call
  fn,                 \* the function currently executing: "seq" | "par"
  hops,               \* how many times one entry function delegated to the other
  pc,                 \* where the executing function is suspended
  batchQueue,         \* batch indices not yet launched (parallel)
  activeBatches,      \* batch indices whose batchPromise is in the active Set
  completedBatches,   \* the completedBatches counter (parallel)
  cur,                \* index of the batch the sequential loop is processing
  results,            \* the results array of the run
  errors,             \* the errors array of the run
  task,               \* per batch: position and local arrays of its task
  wait,               \* the Promise.race / Promise.all the scheduler awaits
  batchOk,            \* per batch: what the batch operation call returned
  itemOk,             \* per item: what the item operation call returned
  batchCalls,         \* per batch: number of batch operation calls made
  itemCalls,          \* per item: number of item operation calls made
  fbCalls,            \* per item: how many of those were made by the fallback loop
  launchLog,          \* history: the batch indices in the order their tasks were started
  lastStep            \* history: what a scheduling loop did last: "none" | "launch" | "race" | "pace"

vars == <<stories, cfg, fn, hops, pc, batchQueue, activeBatches, completedBatches,
          cur, results, errors, task, wait, batchOk, itemOk, batchCalls,
          itemCalls, fbCalls, launchLog, lastStep>>

\* ---- helpers -------------------------------------------------------------
Min(a, b) == IF a < b THEN a ELSE b

RECURSIVE Concat(_, _)
\* f[1] \o f[2] \o ... \o f[n] for a sequence-valued function f
Concat(f, n) == IF n = 0 THEN <<>> ELSE Concat(f, n - 1) \o f[n]

HasScreenshot(story) == story.hasShot

\* stories.filter(story => story.screenshotPath && fs.existsSync(...)), as ids
StoriesWithScreenshots ==
  LET kept == SelectSeq(stories, HasScreenshot)
  IN  [k \in 1..Len(kept) |-> kept[k].id]

\* number of batches the creation loop `for (i = 0; i < n; i += batchSize)` makes
NumBatches ==
  IF cfg.batchSize < 1 THEN 0
  ELSE (Len(StoriesWithScreenshots) + cfg.batchSize - 1) \div cfg.batchSize

BatchIds == 0..(NumBatches - 1)

\* C21 mutant: the slice ends one element early (slice(i, i + batchSize - 1))
BatchOf_EndsEarly(b) ==
  SubSeq(StoriesWithScreenshots, b * cfg.batchSize + 1,
         Min((b + 1) * cfg.batchSize - 1, Len(StoriesWithScreenshots)))

\* storiesWithScreenshots.slice(i, i + batchSize) with i = b * batchSize
BatchOf(b) ==
  SubSeq(StoriesWithScreenshots, b * cfg.batchSize + 1,
         Min((b + 1) * cfg.batchSize, Len(StoriesWithScreenshots)))

\* the set of stories of a batch
Members(batch) == {batch[k] : k \in 1..Len(batch)}

\* ---- outcome records -----------------------------------------------------
\* { success: true, story, result }: src tells which operation produced the
\* result ("batch" | "item") and ref the story the result was computed for
Success(s, src, ref) == [success |-> TRUE, story |-> s, src |-> src, ref |-> ref]
\* { success: false, story, error }: src tells which call failed and ref the
\* batch index ("batch") or story id ("item") of the failed call
Failure(s, src, ref) == [success |-> FALSE, story |-> s, src |-> src, ref |-> ref]

IdleTask == [pc |-> "idle", j |-> 0, batchResults |-> <<>>, batchErrors |-> <<>>]
NoWait == [kind |-> "none", set |-> {}, st |-> "none"]

\* ---- processSingleBatch: one synchronous segment of a batch task ----------
\* A segment ends at the next await (fin = "more": the task now awaits the
\* call `call` for story `item`, or a timer), or when the task returns
\* (fin = "return") or throws (fin = "throw").  pushR / pushE are the
\* records the segment pushed to the result array / error array.
Seg(p, j, pushR, pushE, fin, call, item) ==
  [pc |-> p, j |-> j, pushR |-> pushR, pushE |-> pushE, fin |-> fin,
   call |-> call, item |-> item]

\* the results batchInspectMultipleComponents resolves with: parseBatchResponse
\* builds exactly one result per story, result k for stories[k]
ApiResults(batch) == [k \in 1..Len(batch) |-> batch[k]]

\* C8 mutant: the results paired with the stories in reverse
ZipResults_Reversed(batch, apiResults) ==
  [k \in 1..Len(apiResults) |->
     Success(batch[k], "batch", apiResults[Len(apiResults) + 1 - k])]

\* apiResults.forEach((result, index) => push({success, story: batch[index], result}))
ZipResults(batch, apiResults) ==
  [k \in 1..Len(apiResults) |-> Success(batch[k], "batch", apiResults[k])]

\* C13 mutant: the routing test sends single-story batches to the batch operation
UseBatchCall_AnySize(batch) == cfg.useBatchAPI /\ Len(batch) > 0

\* the routing test `useBatchAPI && batch.length > 1`
UseBatchCall(batch) == cfg.useBatchAPI /\ Len(batch) > 1

\* C10 mutant: the catch block ignores fallbackToIndividual
FallbackCond_NoFlag(batch) == cfg.useBatchAPI /\ Len(batch) > 1

\* the test of the catch block: `useBatchAPI && fallbackToIndividual && batch.length > 1`
FallbackCond(batch) == cfg.useBatchAPI /\ cfg.fallbackToIndividual /\ Len(batch) > 1

\* the individual loop `for (j ...)` of the try block, about to run iteration j
IndividualFrom(batch, j, pushR, pushE) ==
  IF j <= Len(batch)
  THEN Seg("itemCall", j, pushR, pushE, "more", "item", batch[j])
  ELSE Seg("done", j, pushR, pushE, "return", "none", 0)

\* the fallback loop of the catch block, about to run iteration j
FallbackFrom(batch, j, pushR, pushE) ==
  IF j <= Len(batch)
  THEN Seg("fbCall", j, pushR, pushE, "more", "fb", batch[j])
  ELSE Seg("done", j, pushR, pushE, "return", "none", 0)

\* C35 mutant: the no-fallback branch pushes the failures to the results only
CatchBlock_ResultsOnly(batch, src, ref, pushR, pushE) ==
  IF FallbackCond(batch)
  THEN FallbackFrom(batch, 1, pushR, pushE)
  ELSE LET fails == [k \in 1..Len(batch) |-> Failure(batch[k], src, ref)]
       IN  Seg("done", 0, pushR \o fails, pushE,
               IF ~cfg.continueOnError THEN "throw" ELSE "return", "none", 0)

\* C12 mutant: the no-fallback branch marks only the first story of the batch
CatchBlock_FirstOnly(batch, src, ref, pushR, pushE) ==
  IF FallbackCond(batch)
  THEN FallbackFrom(batch, 1, pushR, pushE)
  ELSE LET fails == <<Failure(batch[1], src, ref)>>
       IN  Seg("done", 0, pushR \o fails, pushE \o fails,
               IF ~cfg.continueOnError THEN "throw" ELSE "return", "none", 0)

\* catch (error) { ... } of the task, entered with error (src, ref)
CatchBlock(batch, src, ref, pushR, pushE) ==
  IF FallbackCond(batch)
  THEN FallbackFrom(batch, 1, pushR, pushE)
  ELSE LET fails == [k \in 1..Len(batch) |-> Failure(batch[k], src, ref)]
       IN  Seg("done", 0, pushR \o fails, pushE \o fails,
               IF ~cfg.continueOnError THEN "throw" ELSE "return", "none", 0)

\* C14 mutant: the task goes straight to the individual loop
BeginBatch_SkipsBatchCall(batch) == IndividualFrom(batch, 1, <<>>, <<>>)

\* entry of the task up to its first await
BeginBatch(batch) ==
  IF UseBatchCall(batch)
  THEN Seg("batchCall", 0, <<>>, <<>>, "more", "batch", 0)
  ELSE IndividualFrom(batch, 1, <<>>, <<>>)

\* the awaited batchInspectMultipleComponents call settles
OnBatchReturn(b, batch, ok) ==
  IF ok
  THEN Seg("done", 0, ZipResults(batch, ApiResults(batch)), <<>>, "return", "none", 0)
  ELSE CatchBlock(batch, "batch", b, <<>>, <<>>)

\* C17 mutant: the individual loop rethrows a failed call whatever continueOnError is
OnItemReturn_AlwaysThrows(batch, j, ok) ==
  IF ok
  THEN IF j < Len(batch) /\ cfg.delayBetweenRequests > 0
       THEN Seg("itemDelay", j, <<Success(batch[j], "item", batch[j])>>, <<>>,
                "more", "none", 0)
       ELSE IndividualFrom(batch, j + 1, <<Success(batch[j], "item", batch[j])>>, <<>>)
  ELSE LET f == Failure(batch[j], "item", batch[j])
       IN  Seg("failed", j, <<f>>, <<f>>, "throw", "none", 0)

\* the awaited inspectComponent call of the individual loop settles
OnItemReturn(batch, j, ok) ==
  IF ok
  THEN IF j < Len(batch) /\ cfg.delayBetweenRequests > 0
       THEN Seg("itemDelay", j, <<Success(batch[j], "item", batch[j])>>, <<>>,
                "more", "none", 0)
       ELSE IndividualFrom(batch, j + 1, <<Success(batch[j], "item", batch[j])>>, <<>>)
  ELSE LET f == Failure(batch[j], "item", batch[j])
       IN  IF ~cfg.continueOnError
           THEN CatchBlock(batch, "item", batch[j], <<f>>, <<f>>)
           ELSE IndividualFrom(batch, j + 1, <<f>>, <<f>>)

\* the delayBetweenRequests timer of the individual loop fires
OnItemDelay(batch, j) == IndividualFrom(batch, j + 1, <<>>, <<>>)

\* C11 mutant: a failed call ends the fallback loop even under continueOnError
OnFallbackReturn_StopsAtFailure(batch, j, ok) ==
  IF ok
  THEN FallbackFrom(batch, j + 1, <<Success(batch[j], "item", batch[j])>>, <<>>)
  ELSE LET f == Failure(batch[j], "item", batch[j])
       IN  IF ~cfg.continueOnError
           THEN Seg("failed", j, <<f>>, <<f>>, "throw", "none", 0)
           ELSE Seg("done", Len(batch) + 1, <<f>>, <<f>>, "return", "none", 0)

\* the awaited inspectComponent call of the fallback loop settles
OnFallbackReturn(batch, j, ok) ==
  IF ok
  THEN FallbackFrom(batch, j + 1, <<Success(batch[j], "item", batch[j])>>, <<>>)
  ELSE LET f == Failure(batch[j], "item", batch[j])
       IN  IF ~cfg.continueOnError
           THEN Seg("failed", j, <<f>>, <<f>>, "throw", "none", 0)
           ELSE FallbackFrom(batch, j + 1, <<f>>, <<f>>)

\* ---- promise bookkeeping --------------------------------------------------
\* batchPromise b settles (ok: fulfilled) with `stillActive` left in the Set:
\* Promise.race settles with the first member to settle, Promise.all rejects
\* with the first rejection and fulfils when every member has fulfilled
Settle(b, ok, stillActive) ==
  IF wait.st = "pending" /\ b \in wait.set
  THEN IF wait.kind = "race"
       THEN [wait EXCEPT !.st = IF ok THEN "fulfilled" ELSE "rejected"]
       ELSE IF ~ok THEN [wait EXCEPT !.st = "rejected"]
            ELSE IF wait.set \cap stillActive = {}
                 THEN [wait EXCEPT !.st = "fulfilled"] ELSE wait
  ELSE wait

\* counters of the external calls a segment starts
NoteCalls(b, r) ==
  /\ batchCalls' = IF r.call = "batch" THEN [batchCalls EXCEPT ![b] = @ + 1]
                   ELSE batchCalls
  /\ itemCalls' = IF r.call \in {"item", "fb"} THEN [itemCalls EXCEPT ![r.item] = @ + 1]
                  ELSE itemCalls
  /\ fbCalls' = IF r.call = "fb" THEN [fbCalls EXCEPT ![r.item] = @ + 1] ELSE fbCalls

\* C34 mutant: the tasks push to the run's results and errors as they go
ApplyPar_PushesAsItGoes(b, r) ==
  LET tpc == IF r.fin = "more" THEN r.pc ELSE IF r.fin = "return" THEN "done" ELSE "failed"
  IN  /\ task' = [task EXCEPT ![b] = [pc |-> tpc, j |-> r.j, batchResults |-> <<>>,
                                      batchErrors |-> <<>>]]
      /\ NoteCalls(b, r)
      /\ results' = results \o r.pushR
      /\ errors' = errors \o r.pushE
      /\ IF r.fin = "more"
         THEN UNCHANGED <<activeBatches, completedBatches, wait>>
         ELSE /\ activeBatches' = activeBatches \ {b}
              /\ completedBatches' = completedBatches + 1
              /\ wait' = Settle(b, r.fin = "return", activeBatches \ {b})
      /\ UNCHANGED <<pc, cur, batchQueue>>

\* a segment r of the task of batch b inside processStoriesInParallelBatches:
\* pushes go to the task's batchResults / batchErrors; when the task settles
\* the .then / .catch handler of batchPromise runs
ApplyPar(b, r) ==
  LET br == task[b].batchResults \o r.pushR
      be == task[b].batchErrors \o r.pushE
      tpc == IF r.fin = "more" THEN r.pc ELSE IF r.fin = "return" THEN "done" ELSE "failed"
  IN  /\ task' = [task EXCEPT ![b] = [pc |-> tpc, j |-> r.j, batchResults |-> br,
                                      batchErrors |-> be]]
      /\ NoteCalls(b, r)
      /\ IF r.fin = "more"
         THEN UNCHANGED <<results, errors, activeBatches, completedBatches, wait>>
         ELSE /\ activeBatches' = activeBatches \ {b}
              /\ completedBatches' = completedBatches + 1
              /\ wait' = Settle(b, r.fin = "return", activeBatches \ {b})
              /\ IF r.fin = "return"
                 THEN /\ results' = results \o br
                      /\ errors' = errors \o be
                 ELSE UNCHANGED <<results, errors>>
      /\ UNCHANGED <<pc, cur, batchQueue>>

\* a segment r of the current batch inside the loop of processStoriesInBatches:
\* pushes go straight to the run's results / errors
ApplySeq(b, r) ==
  LET tpc == IF r.fin = "more" THEN r.pc ELSE IF r.fin = "return" THEN "done" ELSE "failed"
  IN  /\ task' = [task EXCEPT ![b] = [pc |-> tpc, j |-> r.j, batchResults |-> <<>>,
                                      batchErrors |-> <<>>]]
      /\ NoteCalls(b, r)
      /\ results' = results \o r.pushR
      /\ errors' = errors \o r.pushE
      /\ pc' = IF r.fin = "more" THEN "seqBatch"
               ELSE IF r.fin = "throw" THEN "rejected"
               ELSE IF (b + 1) * cfg.batchSize < Len(StoriesWithScreenshots)
                       /\ cfg.delayBetweenBatches > 0
                    THEN "seqPace"
                    ELSE "seqLoop"
      /\ cur' = IF r.fin = "return" THEN b + 1 ELSE cur
      /\ UNCHANGED <<batchQueue, activeBatches, completedBatches, wait>>

Apply(b, r) == IF fn = "par" THEN ApplyPar(b, r) ELSE ApplySeq(b, r)

\* a task may run a segment only while the function that owns it is suspended
\* (or has settled: a rejected run does not cancel its tasks)
TaskMayRun(b) ==
  IF fn = "par" THEN pc \in {"race", "pace", "all", "resolved", "rejected"}
  ELSE pc = "seqBatch" /\ b = cur

\* ---- initial states ------------------------------------------------------
Inputs ==
  UNION { { [k \in 1..n |-> [id |-> k, hasShot |-> (k \in shots)]] :
            shots \in SUBSET (1..n) } : n \in 0..MaxItems }

Configs ==
  [ batchSize            : 0..MaxBatchSize,
    maxConcurrentBatches : 1..MaxConcurrent,
    delayBetweenBatches  : {0, DefaultDelayBetweenBatches},
    delayBetweenRequests : {0, InspectionDelayBetweenRequests},
    enableParallel       : BOOLEAN,
    continueOnError      : BOOLEAN,
    useBatchAPI          : BOOLEAN,
    fallbackToIndividual : BOOLEAN ]

Init ==
  /\ stories \in Inputs
  /\ cfg \in Configs
  /\ fn \in {"seq", "par"}
  /\ hops = 0
  /\ pc = "start"
  /\ batchQueue = <<>>
  /\ activeBatches = {}
  /\ completedBatches = 0
  /\ cur = 0
  /\ results = <<>>
  /\ errors = <<>>
  /\ task = [b \in BatchIds |-> IdleTask]
  /\ wait = NoWait
  /\ batchOk = [b \in BatchIds |-> "none"]
  /\ itemOk = [s \in 1..Len(stories) |-> "none"]
  /\ batchCalls = [b \in BatchIds |-> 0]
  /\ itemCalls = [s \in 1..Len(stories) |-> 0]
  /\ fbCalls = [s \in 1..Len(stories) |-> 0]
  /\ launchLog = <<>>
  /\ lastStep = "none"

\* ---- the two entry functions ----------------------------------------------
Unstarted ==
  UNCHANGED <<batchQueue, activeBatches, completedBatches, cur, results, errors,
              task, wait, batchOk, itemOk, batchCalls, itemCalls, fbCalls>>

\* processStoriesInParallelBatches, from its entry to the scheduling loop
EnterParallelBatches ==
  /\ fn = "par" /\ pc = "start"
  /\ UNCHANGED <<launchLog, lastStep, stories, cfg>>
  /\ IF Len(StoriesWithScreenshots) = 0
     THEN pc' = "resolved" /\ UNCHANGED <<fn, hops>> /\ Unstarted
     ELSE IF cfg.batchSize < 1
     THEN pc' = "hung" /\ UNCHANGED <<fn, hops>> /\ Unstarted
     ELSE IF ~cfg.enableParallel \/ cfg.maxConcurrentBatches <= 1
     THEN fn' = "seq" /\ hops' = hops + 1 /\ pc' = "start" /\ Unstarted
     ELSE /\ pc' = "launch"
          /\ batchQueue' = [k \in 1..NumBatches |-> k - 1]
          /\ UNCHANGED <<fn, hops, activeBatches, completedBatches, cur, results,
                         errors, task, wait, batchOk, itemOk, batchCalls, itemCalls,
                         fbCalls>>

\* C37 mutant: processStoriesInBatches dispatches when either option asks for
\* parallel processing (`enableParallel || maxConcurrentBatches > 1`)
EnterBatches_DispatchOnEither ==
  /\ fn = "seq" /\ pc = "start"
  /\ UNCHANGED <<launchLog, lastStep, stories, cfg>>
  /\ IF cfg.enableParallel \/ cfg.maxConcurrentBatches > 1
     THEN fn' = "par" /\ hops' = hops + 1 /\ pc' = "start" /\ Unstarted
     ELSE IF Len(StoriesWithScreenshots) = 0
     THEN pc' = "resolved" /\ UNCHANGED <<fn, hops>> /\ Unstarted
     ELSE IF cfg.batchSize < 1
     THEN pc' = "hung" /\ UNCHANGED <<fn, hops>> /\ Unstarted
     ELSE pc' = "seqLoop" /\ UNCHANGED <<fn, hops>> /\ Unstarted

\* processStoriesInBatches, from its entry to the batch loop
EnterBatches ==
  /\ fn = "seq" /\ pc = "start"
  /\ UNCHANGED <<launchLog, lastStep, stories, cfg>>
  /\ IF cfg.enableParallel /\ cfg.maxConcurrentBatches > 1
     THEN fn' = "par" /\ hops' = hops + 1 /\ pc' = "start" /\ Unstarted
     ELSE IF Len(StoriesWithScreenshots) = 0
     THEN pc' = "resolved" /\ UNCHANGED <<fn, hops>> /\ Unstarted
     ELSE IF cfg.batchSize < 1
     THEN pc' = "hung" /\ UNCHANGED <<fn, hops>> /\ Unstarted
     ELSE pc' = "seqLoop" /\ UNCHANGED <<fn, hops>> /\ Unstarted

\* ---- the sequential loop of processStoriesInBatches -------------------------
\* loop test `i < storiesWithScreenshots.length` and the batch up to its first await
SeqLoop ==
  /\ fn = "seq" /\ pc = "seqLoop"
  /\ UNCHANGED lastStep
  /\ launchLog' = IF cur * cfg.batchSize < Len(StoriesWithScreenshots)
                  THEN Append(launchLog, cur) ELSE launchLog
  /\ UNCHANGED <<stories, cfg, fn, hops, batchOk, itemOk>>
  /\ IF cur * cfg.batchSize < Len(StoriesWithScreenshots)
     THEN ApplySeq(cur, BeginBatch(BatchOf(cur)))
     ELSE /\ pc' = "resolved"
          /\ UNCHANGED <<batchQueue, activeBatches, completedBatches, cur, results,
                         errors, task, wait, batchCalls, itemCalls, fbCalls>>

\* the delayBetweenBatches timer of the sequential loop fires
SeqPaceDone ==
  /\ fn = "seq" /\ pc = "seqPace"
  /\ pc' = "seqLoop"
  /\ UNCHANGED <<launchLog, lastStep, stories, cfg, fn, hops, batchQueue, activeBatches, completedBatches,
                 cur, results, errors, task, wait, batchOk, itemOk, batchCalls,
                 itemCalls, fbCalls>>

\* ---- the scheduling loop of processStoriesInParallelBatches -----------------
\* what follows `await Promise.race(...)`: the pacing test, the outer loop
\* test, and after the loop the test for the trailing Promise.all
AfterLoop ==
  IF activeBatches # {}
  THEN pc' = "all" /\ wait' = [kind |-> "all", set |-> activeBatches, st |-> "pending"]
  ELSE pc' = "resolved" /\ wait' = NoWait

\* C33 mutant: the outer loop test counts the active batches as completed
LoopTest_CountsActive ==
  IF completedBatches + Cardinality(activeBatches) < NumBatches
  THEN pc' = "launch" /\ wait' = NoWait
  ELSE AfterLoop

\* C26 mutant: the outer loop test is always true (while (true))
LoopTest_NeverExits == pc' = "launch" /\ wait' = NoWait

\* C15 mutant: the outer loop test off by one, the loop ends one completion early
LoopTest_StopsEarly ==
  IF completedBatches < NumBatches - 1
  THEN pc' = "launch" /\ wait' = NoWait
  ELSE AfterLoop

LoopTest ==
  IF completedBatches < NumBatches
  THEN pc' = "launch" /\ wait' = NoWait
  ELSE AfterLoop

\* C25 mutant: the scheduling loop never paces
AfterRace_NoPacing == LoopTest

\* C24 mutant: the pacing test ignores the queue
AfterRace_IgnoresQueue ==
  IF cfg.delayBetweenBatches > 0
  THEN pc' = "pace" /\ wait' = NoWait
  ELSE LoopTest

AfterRace ==
  IF Len(batchQueue) > 0 /\ cfg.delayBetweenBatches > 0
  THEN pc' = "pace" /\ wait' = NoWait
  ELSE LoopTest

\* C31 mutant: the inner while starts a batch only when no batch is active
LaunchCond_OneAtATime == activeBatches = {} /\ Len(batchQueue) > 0

\* C2 mutant: the slot test off by one (`<=` for `<`)
LaunchCond_OffByOne ==
  Cardinality(activeBatches) <= cfg.maxConcurrentBatches /\ Len(batchQueue) > 0

LaunchCond == Cardinality(activeBatches) < cfg.maxConcurrentBatches /\ Len(batchQueue) > 0

\* one iteration of the inner while: batchQueue.shift(), processSingleBatch
\* runs to its first await, activeBatches.add(batchPromise)
Launch ==
  /\ fn = "par" /\ pc = "launch"
  /\ LaunchCond
  /\ launchLog' = Append(launchLog, Head(batchQueue))
  /\ lastStep' = "launch"
  /\ LET b == Head(batchQueue)
         r == BeginBatch(BatchOf(b))
     IN  /\ batchQueue' = Tail(batchQueue)
         /\ activeBatches' = activeBatches \cup {b}
         /\ task' = [task EXCEPT ![b] = [pc |-> r.pc, j |-> r.j, batchResults |-> r.pushR,
                                         batchErrors |-> r.pushE]]
         /\ NoteCalls(b, r)
  /\ UNCHANGED <<stories, cfg, fn, hops, pc, completedBatches, cur, results, errors,
                 wait, batchOk, itemOk>>

\* the inner while is over: `if (activeBatches.size > 0) await Promise.race(...)`
Suspend ==
  /\ fn = "par" /\ pc = "launch"
  /\ ~LaunchCond
  /\ IF activeBatches # {}
     THEN pc' = "race" /\ wait' = [kind |-> "race", set |-> activeBatches, st |-> "pending"]
     ELSE AfterRace
  /\ lastStep' = IF activeBatches # {} THEN "race" ELSE lastStep
  /\ UNCHANGED <<launchLog, stories, cfg, fn, hops, batchQueue, activeBatches, completedBatches,
                 cur, results, errors, task, batchOk, itemOk, batchCalls, itemCalls,
                 fbCalls>>

\* the awaited Promise.race / Promise.all has settled and the function resumes
Resume ==
  /\ fn = "par" /\ pc \in {"race", "all"}
  /\ wait.st \in {"fulfilled", "rejected"}
  /\ IF wait.st = "rejected"
     THEN pc' = "rejected" /\ wait' = NoWait
     ELSE IF pc = "race" THEN AfterRace ELSE pc' = "resolved" /\ wait' = NoWait
  /\ UNCHANGED <<launchLog, lastStep, stories, cfg, fn, hops, batchQueue, activeBatches, completedBatches,
                 cur, results, errors, task, batchOk, itemOk, batchCalls, itemCalls,
                 fbCalls>>

\* the delayBetweenBatches timer of the scheduling loop fires
PaceDone ==
  /\ fn = "par" /\ pc = "pace"
  /\ LoopTest
  /\ lastStep' = "pace"
  /\ UNCHANGED <<launchLog, stories, cfg, fn, hops, batchQueue, activeBatches, completedBatches,
                 cur, results, errors, task, batchOk, itemOk, batchCalls, itemCalls,
                 fbCalls>>

\* ---- external calls settling ------------------------------------------------
\* batchInspectMultipleComponents(batch) fulfils (ok) or rejects
BatchCallReturns(b, ok) ==
  /\ task[b].pc = "batchCall" /\ TaskMayRun(b)
  /\ batchOk' = [batchOk EXCEPT ![b] = IF ok THEN "ok" ELSE "fail"]
  /\ Apply(b, OnBatchReturn(b, BatchOf(b), ok))
  /\ UNCHANGED <<launchLog, lastStep, stories, cfg, fn, hops, itemOk>>

\* inspectComponent(story) of the individual loop fulfils (ok) or rejects
ItemCallReturns(b, ok) ==
  /\ task[b].pc = "itemCall" /\ TaskMayRun(b)
  /\ itemOk' = [itemOk EXCEPT ![BatchOf(b)[task[b].j]] = IF ok THEN "ok" ELSE "fail"]
  /\ Apply(b, OnItemReturn(BatchOf(b), task[b].j, ok))
  /\ UNCHANGED <<launchLog, lastStep, stories, cfg, fn, hops, batchOk>>

\* the delayBetweenRequests timer of the individual loop fires
ItemDelayDone(b) ==
  /\ task[b].pc = "itemDelay" /\ TaskMayRun(b)
  /\ Apply(b, OnItemDelay(BatchOf(b), task[b].j))
  /\ UNCHANGED <<launchLog, lastStep, stories, cfg, fn, hops, batchOk, itemOk>>

\* inspectComponent(story) of the fallback loop fulfils (ok) or rejects
FallbackCallReturns(b, ok) ==
  /\ task[b].pc = "fbCall" /\ TaskMayRun(b)
  /\ itemOk' = [itemOk EXCEPT ![BatchOf(b)[task[b].j]] = IF ok THEN "ok" ELSE "fail"]
  /\ Apply(b, OnFallbackReturn(BatchOf(b), task[b].j, ok))
  /\ UNCHANGED <<launchLog, lastStep, stories, cfg, fn, hops, batchOk>>

Next ==
  \/ EnterParallelBatches
  \/ EnterBatches
  \/ SeqLoop
  \/ SeqPaceDone
  \/ Launch
  \/ Suspend
  \/ Resume
  \/ PaceDone
  \/ \E b \in BatchIds, ok \in BOOLEAN : BatchCallReturns(b, ok)
  \/ \E b \in BatchIds, ok \in BOOLEAN : ItemCallReturns(b, ok)
  \/ \E b \in BatchIds : ItemDelayDone(b)
  \/ \E b \in BatchIds, ok \in BOOLEAN : FallbackCallReturns(b, ok)

Spec == Init /\ [][Next]_vars

\* the runs with continueOnError = true, the default of the option of both
\* entry functions (and what analyzeStorybook passes unless told otherwise)
InitContinue == Init /\ cfg.continueOnError

SpecContinue == InitContinue /\ [][Next]_vars

\* ---- text embeddings: generateTextEmbeddingsInParallel / generateTextEmbeddings
\* The same scheduling loop drives these two functions.  They have one
\* operation only, the embeddings request, posted once for every batch; a
\* story's flag hasShot stands here for the field their filter tests
\* (story.searchableText).  fn is "textPar" or "textSeq".
\* default of the delayBetweenBatches option of generateTextEmbeddingsInParallel
DefaultTextDelayBetweenBatches == 1000

IsText == fn \in {"textPar", "textSeq"}

\* a story pushed with its textEmbedding (emb = index of the embedding in the
\* response of the request of its batch) ...
WithEmbedding(s, emb) == [success |-> TRUE, story |-> s, src |-> "batch", ref |-> emb]
\* ... and a story pushed as it is, without textEmbedding
WithoutEmbedding(s) == [success |-> FALSE, story |-> s, src |-> "batch", ref |-> 0]

\* batch.forEach((story, index) => index < embeddings.length ? {...story,
\* textEmbedding: embeddings[index].embedding} : story), n = embeddings.length
MapEmbeddings(batch, n) ==
  [k \in 1..Len(batch) |->
     IF k <= n THEN WithEmbedding(batch[k], k) ELSE WithoutEmbedding(batch[k])]

\* the catch block: batch.forEach(story => batchResults.push(story))
AllWithoutEmbedding(batch) == [k \in 1..Len(batch) |-> WithoutEmbedding(batch[k])]

\* what the task pushes when the request settles: fulfilled with n embeddings, or rejected
TextBatchResults(batch, ok, n) ==
  IF ok THEN MapEmbeddings(batch, n) ELSE AllWithoutEmbedding(batch)

TextConfigs ==
  [ batchSize            : 1..MaxBatchSize,
    maxConcurrentBatches : 1..MaxConcurrent,
    delayBetweenBatches  : {0, DefaultTextDelayBetweenBatches},
    enableParallel       : BOOLEAN ]

InitText ==
  /\ stories \in Inputs
  /\ cfg \in TextConfigs
  /\ fn \in {"textPar", "textSeq"}
  /\ hops = 0
  /\ pc = "start"
  /\ batchQueue = <<>>
  /\ activeBatches = {}
  /\ completedBatches = 0
  /\ cur = 0
  /\ results = <<>>
  /\ errors = <<>>
  /\ task = [b \in BatchIds |-> IdleTask]
  /\ wait = NoWait
  /\ batchOk = [b \in BatchIds |-> "none"]
  /\ itemOk = [s \in 1..Len(stories) |-> "none"]
  /\ batchCalls = [b \in BatchIds |-> 0]
  /\ itemCalls = [s \in 1..Len(stories) |-> 0]
  /\ fbCalls = [s \in 1..Len(stories) |-> 0]
  /\ launchLog = <<>>
  /\ lastStep = "none"

\* generateTextEmbeddingsInParallel, from its entry to the scheduling loop
EnterTextParallel ==
  /\ fn = "textPar" /\ pc = "start"
  /\ UNCHANGED <<launchLog, lastStep, stories, cfg>>
  /\ IF Len(StoriesWithScreenshots) = 0
     THEN pc' = "resolved" /\ UNCHANGED <<fn, hops>> /\ Unstarted
     ELSE IF ~cfg.enableParallel \/ cfg.maxConcurrentBatches <= 1
     THEN fn' = "textSeq" /\ hops' = hops + 1 /\ pc' = "start" /\ Unstarted
     ELSE /\ pc' = "launch"
          /\ batchQueue' = [k \in 1..NumBatches |-> k - 1]
          /\ UNCHANGED <<fn, hops, activeBatches, completedBatches, cur, results,
                         errors, task, wait, batchOk, itemOk, batchCalls, itemCalls,
                         fbCalls>>

\* generateTextEmbeddings, from its entry to the batch loop
EnterText ==
  /\ fn = "textSeq" /\ pc = "start"
  /\ pc' = IF Len(StoriesWithScreenshots) = 0 THEN "resolved" ELSE "seqLoop"
  /\ UNCHANGED <<launchLog, lastStep, stories, cfg, fn, hops>>
  /\ Unstarted

\* loop test of generateTextEmbeddings and the iteration up to the awaited request
TextSeqLoop ==
  /\ fn = "textSeq" /\ pc = "seqLoop"
  /\ UNCHANGED lastStep
  /\ launchLog' = IF cur * cfg.batchSize < Len(StoriesWithScreenshots)
                  THEN Append(launchLog, cur) ELSE launchLog
  /\ IF cur * cfg.batchSize < Len(StoriesWithScreenshots)
     THEN /\ pc' = "seqBatch"
          /\ task' = [task EXCEPT ![cur].pc = "textCall"]
          /\ batchCalls' = [batchCalls EXCEPT ![cur] = @ + 1]
     ELSE pc' = "resolved" /\ UNCHANGED <<task, batchCalls>>
  /\ UNCHANGED <<stories, cfg, fn, hops, batchQueue, activeBatches, completedBatches,
                 cur, results, errors, wait, batchOk, itemOk, itemCalls, fbCalls>>

\* the request of the current batch settles; then `if (i + batchSize < length)`
\* the loop waits one second
TextSeqCallReturns(ok, n) ==
  /\ fn = "textSeq" /\ pc = "seqBatch" /\ task[cur].pc = "textCall"
  /\ n \in 0..Len(BatchOf(cur))
  /\ batchOk' = [batchOk EXCEPT ![cur] = IF ok THEN "ok" ELSE "fail"]
  /\ task' = [task EXCEPT ![cur] = [pc |-> "done", j |-> IF ok THEN n ELSE 0,
                                    batchResults |-> <<>>, batchErrors |-> <<>>]]
  /\ results' = results \o TextBatchResults(BatchOf(cur), ok, n)
  /\ cur' = cur + 1
  /\ pc' = IF (cur + 1) * cfg.batchSize < Len(StoriesWithScreenshots)
           THEN "seqPace" ELSE "seqLoop"
  /\ UNCHANGED <<launchLog, lastStep, stories, cfg, fn, hops, batchQueue, activeBatches, completedBatches,
                 errors, wait, itemOk, batchCalls, itemCalls, fbCalls>>

\* the one second timer of generateTextEmbeddings fires
TextSeqPaceDone ==
  /\ fn = "textSeq" /\ pc = "seqPace"
  /\ pc' = "seqLoop"
  /\ UNCHANGED <<launchLog, lastStep, stories, cfg, fn, hops, batchQueue, activeBatches, completedBatches,
                 cur, results, errors, task, wait, batchOk, itemOk, batchCalls,
                 itemCalls, fbCalls>>

\* C16 mutant: the inner while takes the last queued batch (pop() for shift())
TextLaunch_TakesLast ==
  /\ fn = "textPar" /\ pc = "launch"
  /\ LaunchCond
  /\ LET b == batchQueue[Len(batchQueue)]
     IN  /\ launchLog' = Append(launchLog, b)
         /\ lastStep' = "launch"
         /\ batchQueue' = SubSeq(batchQueue, 1, Len(batchQueue) - 1)
         /\ activeBatches' = activeBatches \cup {b}
         /\ task' = [task EXCEPT ![b].pc = "textCall"]
         /\ batchCalls' = [batchCalls EXCEPT ![b] = @ + 1]
  /\ UNCHANGED <<stories, cfg, fn, hops, pc, completedBatches, cur, results, errors,
                 wait, batchOk, itemOk, itemCalls, fbCalls>>

\* one iteration of the inner while: batchQueue.shift(),
\* processSingleTextEmbeddingBatch runs to the awaited request, activeBatches.add
TextLaunch ==
  /\ fn = "textPar" /\ pc = "launch"
  /\ LaunchCond
  /\ launchLog' = Append(launchLog, Head(batchQueue))
  /\ lastStep' = "launch"
  /\ LET b == Head(batchQueue)
     IN  /\ batchQueue' = Tail(batchQueue)
         /\ activeBatches' = activeBatches \cup {b}
         /\ task' = [task EXCEPT ![b].pc = "textCall"]
         /\ batchCalls' = [batchCalls EXCEPT ![b] = @ + 1]
  /\ UNCHANGED <<stories, cfg, fn, hops, pc, completedBatches, cur, results, errors,
                 wait, batchOk, itemOk, itemCalls, fbCalls>>

\* the inner while is over: `if (activeBatches.size > 0) await Promise.race(...)`
TextSuspend ==
  /\ fn = "textPar" /\ pc = "launch"
  /\ ~LaunchCond
  /\ IF activeBatches # {}
     THEN pc' = "race" /\ wait' = [kind |-> "race", set |-> activeBatches, st |-> "pending"]
     ELSE AfterRace
  /\ lastStep' = IF activeBatches # {} THEN "race" ELSE lastStep
  /\ UNCHANGED <<launchLog, stories, cfg, fn, hops, batchQueue, activeBatches, completedBatches,
                 cur, results, errors, task, batchOk, itemOk, batchCalls, itemCalls,
                 fbCalls>>

\* the awaited Promise.race has settled and the function resumes (no task of
\* this function rejects, and no batch is active when the loop ends)
TextResume ==
  /\ fn = "textPar" /\ pc = "race"
  /\ wait.st = "fulfilled"
  /\ AfterRace
  /\ UNCHANGED <<launchLog, lastStep, stories, cfg, fn, hops, batchQueue, activeBatches, completedBatches,
                 cur, results, errors, task, batchOk, itemOk, batchCalls, itemCalls,
                 fbCalls>>

\* the delayBetweenBatches timer of the scheduling loop fires
TextPaceDone ==
  /\ fn = "textPar" /\ pc = "pace"
  /\ LoopTest
  /\ lastStep' = "pace"
  /\ UNCHANGED <<launchLog, stories, cfg, fn, hops, batchQueue, activeBatches, completedBatches,
                 cur, results, errors, task, batchOk, itemOk, batchCalls, itemCalls,
                 fbCalls>>

\* the request of batch b settles: the task returns its batchResults and the
\* .then handler of batchPromise pushes them to results
TextCallReturns(b, ok, n) ==
  /\ fn = "textPar" /\ pc \in {"race", "pace", "resolved"}
  /\ task[b].pc = "textCall"
  /\ n \in 0..Len(BatchOf(b))
  /\ batchOk' = [batchOk EXCEPT ![b] = IF ok THEN "ok" ELSE "fail"]
  /\ task' = [task EXCEPT ![b] = [pc |-> "done", j |-> IF ok THEN n ELSE 0,
                                  batchResults |-> TextBatchResults(BatchOf(b), ok, n),
                                  batchErrors |-> <<>>]]
  /\ results' = results \o TextBatchResults(BatchOf(b), ok, n)
  /\ activeBatches' = activeBatches \ {b}
  /\ completedBatches' = completedBatches + 1
  /\ wait' = Settle(b, TRUE, activeBatches \ {b})
  /\ UNCHANGED <<launchLog, lastStep, stories, cfg, fn, hops, pc, batchQueue, cur, errors, itemOk,
                 batchCalls, itemCalls, fbCalls>>

NextText ==
  \/ EnterTextParallel
  \/ EnterText
  \/ TextSeqLoop
  \/ TextSeqPaceDone
  \/ TextLaunch
  \/ TextSuspend
  \/ TextResume
  \/ TextPaceDone
  \/ \E ok \in BOOLEAN, n \in 0..MaxBatchSize : TextSeqCallReturns(ok, n)
  \/ \E b \in BatchIds, ok \in BOOLEAN, n \in 0..MaxBatchSize : TextCallReturns(b, ok, n)

SpecText == InitText /\ [][NextText]_vars

\* ---- R2 upload: R2Uploader.uploadFilesInParallel / uploadFiles ----------------
\* The same scheduling loop once more.  Every entry of filePaths is batched
\* (there is no filter: entries are modelled with hasShot = TRUE); isString
\* tells whether the entry is a string, as path.basename requires.  A batch
\* task starts the uploads of all its files at once and awaits them with
\* Promise.all.  fn is "upPar" or "upSeq"; baseR2Path is ''.
\* default of the delayBetweenBatches option of uploadFilesInParallel
DefaultUploadDelayBetweenBatches == 500

\* { originalPath: filePath, r2Url } and { originalPath: filePath, error }
Uploaded(s) == Success(s, "item", s)
UploadError(s) == Failure(s, "item", s)

\* the catch of the mapper evaluates path.basename(filePath), which throws a
\* TypeError for an entry that is not a string: the mapper's promise rejects
MapperThrows(batch) == \E k \in 1..Len(batch) : ~stories[batch[k]].isString

\* batchUploadResults.forEach(result => result.error ? batchErrors.push(result)
\* : batchResults.push(result)), oks = the files whose uploadFile call fulfilled
UploadedOf(batch, oks) ==
  LET all == [k \in 1..Len(batch) |->
                IF batch[k] \in oks THEN Uploaded(batch[k]) ELSE UploadError(batch[k])]
  IN  SelectSeq(all, LAMBDA r : r.success)

UploadErrorsOf(batch, oks) ==
  LET all == [k \in 1..Len(batch) |->
                IF batch[k] \in oks THEN Uploaded(batch[k]) ELSE UploadError(batch[k])]
  IN  SelectSeq(all, LAMBDA r : ~r.success)

UploadInputs ==
  UNION { { [k \in 1..n |-> [id |-> k, hasShot |-> TRUE, isString |-> (k \in strs)]] :
            strs \in SUBSET (1..n) } : n \in 0..MaxItems }

UploadConfigs ==
  [ batchSize            : 0..MaxBatchSize,
    maxConcurrentBatches : 1..MaxConcurrent,
    delayBetweenBatches  : {0, DefaultUploadDelayBetweenBatches},
    enableParallel       : BOOLEAN ]

InitUpload ==
  /\ stories \in UploadInputs
  /\ cfg \in UploadConfigs
  /\ fn \in {"upPar", "upSeq"}
  /\ hops = 0
  /\ pc = "start"
  /\ batchQueue = <<>>
  /\ activeBatches = {}
  /\ completedBatches = 0
  /\ cur = 0
  /\ results = <<>>
  /\ errors = <<>>
  /\ task = [b \in BatchIds |-> IdleTask]
  /\ wait = NoWait
  /\ batchOk = [b \in BatchIds |-> "none"]
  /\ itemOk = [s \in 1..Len(stories) |-> "none"]
  /\ batchCalls = [b \in BatchIds |-> 0]
  /\ itemCalls = [s \in 1..Len(stories) |-> 0]
  /\ fbCalls = [s \in 1..Len(stories) |-> 0]
  /\ launchLog = <<>>
  /\ lastStep = "none"

\* uploadFilesInParallel, from its entry to the scheduling loop
EnterUploadParallel ==
  /\ fn = "upPar" /\ pc = "start"
  /\ UNCHANGED <<launchLog, lastStep, stories, cfg>>
  /\ IF ~cfg.enableParallel \/ cfg.maxConcurrentBatches <= 1
     THEN fn' = "upSeq" /\ hops' = hops + 1 /\ pc' = "start" /\ Unstarted
     ELSE IF Len(stories) = 0
     THEN pc' = "resolved" /\ UNCHANGED <<fn, hops>> /\ Unstarted
     ELSE IF cfg.batchSize < 1
     THEN pc' = "hung" /\ UNCHANGED <<fn, hops>> /\ Unstarted
     ELSE /\ pc' = "launch"
          /\ batchQueue' = [k \in 1..NumBatches |-> k - 1]
          /\ UNCHANGED <<fn, hops, activeBatches, completedBatches, cur, results,
                         errors, task, wait, batchOk, itemOk, batchCalls, itemCalls,
                         fbCalls>>

\* uploadFiles, from its entry to the file loop
EnterUploadFiles ==
  /\ fn = "upSeq" /\ pc = "start"
  /\ pc' = "seqLoop"
  /\ UNCHANGED <<launchLog, lastStep, stories, cfg, fn, hops>>
  /\ Unstarted

\* `for (const filePath of filePaths)` up to `await this.uploadFile(...)`;
\* cur counts the files already handled
UploadFilesLoop ==
  /\ fn = "upSeq" /\ pc = "seqLoop"
  /\ IF cur < Len(stories)
     THEN pc' = "seqBatch" /\ itemCalls' = [itemCalls EXCEPT ![cur + 1] = @ + 1]
     ELSE pc' = "resolved" /\ UNCHANGED itemCalls
  /\ UNCHANGED <<launchLog, lastStep, stories, cfg, fn, hops, batchQueue, activeBatches,
                 completedBatches, cur, results, errors, task, wait, batchOk, itemOk,
                 batchCalls, fbCalls>>

\* the awaited uploadFile call settles (it rejects for an entry that is not a
\* string: fs.existsSync returns false for it); results.push or errors.push
UploadFilesReturn(ok) ==
  /\ fn = "upSeq" /\ pc = "seqBatch"
  /\ ok => stories[cur + 1].isString
  /\ itemOk' = [itemOk EXCEPT ![cur + 1] = IF ok THEN "ok" ELSE "fail"]
  /\ results' = IF ok THEN Append(results, Uploaded(cur + 1)) ELSE results
  /\ errors' = IF ok THEN errors ELSE Append(errors, UploadError(cur + 1))
  /\ cur' = cur + 1
  /\ pc' = "seqLoop"
  /\ UNCHANGED <<launchLog, lastStep, stories, cfg, fn, hops, batchQueue, activeBatches,
                 completedBatches, task, wait, batchOk, batchCalls, itemCalls, fbCalls>>

\* one iteration of the inner while: batchQueue.shift(), processSingleUploadBatch
\* starts uploadFile for every file of the batch and awaits Promise.all
UploadLaunch ==
  /\ fn = "upPar" /\ pc = "launch"
  /\ LaunchCond
  /\ LET b == Head(batchQueue)
     IN  /\ launchLog' = Append(launchLog, b)
         /\ lastStep' = "launch"
         /\ batchQueue' = Tail(batchQueue)
         /\ activeBatches' = activeBatches \cup {b}
         /\ task' = [task EXCEPT ![b].pc =
                       IF MapperThrows(BatchOf(b)) THEN "throwing" ELSE "uploading"]
         /\ itemCalls' = [s \in 1..Len(stories) |->
                            IF s \in Members(BatchOf(b)) THEN itemCalls[s] + 1
                            ELSE itemCalls[s]]
  /\ UNCHANGED <<stories, cfg, fn, hops, pc, completedBatches, cur, results, errors,
                 wait, batchOk, itemOk, batchCalls, fbCalls>>

\* the inner while is over: `if (activeBatches.size > 0) await Promise.race(...)`
UploadSuspend ==
  /\ fn = "upPar" /\ pc = "launch"
  /\ ~LaunchCond
  /\ IF activeBatches # {}
     THEN pc' = "race" /\ wait' = [kind |-> "race", set |-> activeBatches, st |-> "pending"]
     ELSE AfterRace
  /\ lastStep' = IF activeBatches # {} THEN "race" ELSE lastStep
  /\ UNCHANGED <<launchLog, stories, cfg, fn, hops, batchQueue, activeBatches,
                 completedBatches, cur, results, errors, task, batchOk, itemOk,
                 batchCalls, itemCalls, fbCalls>>

\* the awaited Promise.race has settled and the function resumes or rejects
UploadResume ==
  /\ fn = "upPar" /\ pc = "race"
  /\ wait.st \in {"fulfilled", "rejected"}
  /\ IF wait.st = "rejected" THEN pc' = "rejected" /\ wait' = NoWait ELSE AfterRace
  /\ UNCHANGED <<launchLog, lastStep, stories, cfg, fn, hops, batchQueue, activeBatches,
                 completedBatches, cur, results, errors, task, batchOk, itemOk,
                 batchCalls, itemCalls, fbCalls>>

\* the delayBetweenBatches timer of the scheduling loop fires
UploadPaceDone ==
  /\ fn = "upPar" /\ pc = "pace"
  /\ LoopTest
  /\ lastStep' = "pace"
  /\ UNCHANGED <<launchLog, stories, cfg, fn, hops, batchQueue, activeBatches,
                 completedBatches, cur, results, errors, task, batchOk, itemOk,
                 batchCalls, itemCalls, fbCalls>>

\* C32 mutant: the .catch handler of batchPromise does not count the batch
UploadTaskRejects_NoCount(b) ==
  /\ fn = "upPar" /\ pc \in {"race", "pace", "resolved", "rejected"}
  /\ task[b].pc = "throwing"
  /\ task' = [task EXCEPT ![b].pc = "failed"]
  /\ activeBatches' = activeBatches \ {b}
  /\ wait' = Settle(b, FALSE, activeBatches \ {b})
  /\ UNCHANGED <<launchLog, lastStep, stories, cfg, fn, hops, pc, batchQueue, cur, results,
                 errors, batchOk, itemOk, batchCalls, itemCalls, fbCalls, completedBatches>>

\* a mapper of batch b threw out of its catch: Promise.all rejects, the task
\* rejects, and the .catch handler of batchPromise runs and rethrows
UploadTaskRejects(b) ==
  /\ fn = "upPar" /\ pc \in {"race", "pace", "resolved", "rejected"}
  /\ task[b].pc = "throwing"
  /\ task' = [task EXCEPT ![b].pc = "failed"]
  /\ activeBatches' = activeBatches \ {b}
  /\ completedBatches' = completedBatches + 1
  /\ wait' = Settle(b, FALSE, activeBatches \ {b})
  /\ UNCHANGED <<launchLog, lastStep, stories, cfg, fn, hops, pc, batchQueue, cur, results,
                 errors, batchOk, itemOk, batchCalls, itemCalls, fbCalls>>

\* every uploadFile call of batch b has settled (oks: those that fulfilled):
\* the task returns and the .then handler pushes its results and errors.  The
\* rejection of a throwing task needs no I/O and comes first.
UploadBatchSettles(b, oks) ==
  /\ fn = "upPar" /\ pc \in {"race", "pace", "resolved", "rejected"}
  /\ task[b].pc = "uploading"
  /\ \A c \in BatchIds : task[c].pc # "throwing"
  /\ oks \subseteq Members(BatchOf(b))
  /\ itemOk' = [s \in 1..Len(stories) |->
                  IF s \in Members(BatchOf(b))
                  THEN (IF s \in oks THEN "ok" ELSE "fail") ELSE itemOk[s]]
  /\ task' = [task EXCEPT ![b] = [pc |-> "done", j |-> 0,
                                  batchResults |-> UploadedOf(BatchOf(b), oks),
                                  batchErrors |-> UploadErrorsOf(BatchOf(b), oks)]]
  /\ results' = results \o UploadedOf(BatchOf(b), oks)
  /\ errors' = errors \o UploadErrorsOf(BatchOf(b), oks)
  /\ activeBatches' = activeBatches \ {b}
  /\ completedBatches' = completedBatches + 1
  /\ wait' = Settle(b, TRUE, activeBatches \ {b})
  /\ UNCHANGED <<launchLog, lastStep, stories, cfg, fn, hops, pc, batchQueue, cur, batchOk,
                 batchCalls, itemCalls, fbCalls>>

NextUpload ==
  \/ EnterUploadParallel
  \/ EnterUploadFiles
  \/ UploadFilesLoop
  \/ \E ok \in BOOLEAN : UploadFilesReturn(ok)
  \/ UploadLaunch
  \/ UploadSuspend
  \/ UploadResume
  \/ UploadPaceDone
  \/ \E b \in BatchIds : UploadTaskRejects(b)
  \/ \E b \in BatchIds, oks \in SUBSET (1..MaxItems) : UploadBatchSettles(b, oks)

SpecUpload == InitUpload /\ [][NextUpload]_vars

\* ---- image embeddings: processImagesInParallelBatches / processImagesInBatches
\* The same scheduling loop again, with one operation, the embeddings request,
\* posted once for every batch that has a readable image.  An entry's flag
\* hasShot stands for entry.screenshotPath being set, readable for
\* imageToBase64(entry.screenshotPath) returning the file's content.  fn is
\* "imgPar" or "imgSeq".
\* default of the delayBetweenBatches option of processImagesInParallelBatches
DefaultImageDelayBetweenBatches == 1000

IsImage == fn \in {"imgPar", "imgSeq"}

\* imageToBase64(entry.screenshotPath) is not null
Readable(s) == stories[s].readable

\* the entries of a batch that contribute an input to the request (imageInputs)
ImageInputsOf(batch) == SelectSeq(batch, Readable)

\* { ...entry, embedding: embeddings[emb - 1].embedding }
Embedded(s, emb) == [success |-> TRUE, story |-> s, src |-> "batch", ref |-> emb]
\* { ...entry, embedding: null }
EmbeddingNull(s) == [success |-> FALSE, story |-> s, src |-> "none", ref |-> 0]
\* the entry object itself, as it was passed in
SameEntry(s) == [success |-> FALSE, story |-> s, src |-> "input", ref |-> 0]

\* C22 mutant: the mapping stops at the first entry without an embedding
MapImageEmbeddings_StopsAtGap(batch, n) ==
  LET full == [k \in 1..Len(batch) |->
                 LET before == Len(SelectSeq(SubSeq(batch, 1, k - 1), Readable))
                 IN  IF Readable(batch[k]) /\ before < n
                     THEN Embedded(batch[k], before + 1) ELSE EmbeddingNull(batch[k])]
      cut == IF \E k \in 1..Len(batch) : ~full[k].success
             THEN (CHOOSE k \in 1..Len(batch) :
                     ~full[k].success /\ \A m \in 1..(k - 1) : full[m].success) - 1
             ELSE Len(batch)
  IN  SubSeq(full, 1, cut)

\* let embeddingIndex = 0; batch.forEach(entry => base64Image && embeddingIndex <
\* embeddings.length ? push with embeddings[embeddingIndex++] : push with null),
\* n = embeddings.length
MapImageEmbeddings(batch, n) ==
  [k \in 1..Len(batch) |->
     LET before == Len(SelectSeq(SubSeq(batch, 1, k - 1), Readable))
     IN  IF Readable(batch[k]) /\ before < n
         THEN Embedded(batch[k], before + 1) ELSE EmbeddingNull(batch[k])]

\* batch.forEach(entry => batchResults.push({ ...entry, embedding: null }))
AllEmbeddingNull(batch) == [k \in 1..Len(batch) |-> EmbeddingNull(batch[k])]

\* what is pushed when the request settles: fulfilled with n embeddings, or rejected
ImageBatchResults(batch, ok, n) ==
  IF ok THEN MapImageEmbeddings(batch, n) ELSE AllEmbeddingNull(batch)

LacksScreenshot(entry) == ~entry.hasShot

\* entries.filter(entry => !entry.screenshotPath), each pushed with embedding: null
EntriesWithoutImages ==
  LET rest == SelectSeq(stories, LacksScreenshot)
  IN  [k \in 1..Len(rest) |-> EmbeddingNull(rest[k].id)]

ImageInputs ==
  UNION { { [k \in 1..n |-> [id |-> k, hasShot |-> (k \in shots),
                             readable |-> (k \in files)]] :
            shots \in SUBSET (1..n), files \in SUBSET (1..n) } : n \in 0..MaxItems }

ImageConfigs ==
  [ batchSize            : 1..MaxBatchSize,
    maxConcurrentBatches : 1..MaxConcurrent,
    delayBetweenBatches  : {0, DefaultImageDelayBetweenBatches},
    enableParallel       : BOOLEAN ]

InitImage ==
  /\ stories \in {e \in ImageInputs : \A k \in 1..Len(e) : e[k].readable => e[k].hasShot}
  /\ cfg \in ImageConfigs
  /\ fn \in {"imgPar", "imgSeq"}
  /\ hops = 0
  /\ pc = "start"
  /\ batchQueue = <<>>
  /\ activeBatches = {}
  /\ completedBatches = 0
  /\ cur = 0
  /\ results = <<>>
  /\ errors = <<>>
  /\ task = [b \in BatchIds |-> IdleTask]
  /\ wait = NoWait
  /\ batchOk = [b \in BatchIds |-> "none"]
  /\ itemOk = [s \in 1..Len(stories) |-> "none"]
  /\ batchCalls = [b \in BatchIds |-> 0]
  /\ itemCalls = [s \in 1..Len(stories) |-> 0]
  /\ fbCalls = [s \in 1..Len(stories) |-> 0]
  /\ launchLog = <<>>
  /\ lastStep = "none"

\* processImagesInParallelBatches, from its entry to the scheduling loop
EnterImagesParallel ==
  /\ fn = "imgPar" /\ pc = "start"
  /\ UNCHANGED <<launchLog, lastStep, stories, cfg>>
  /\ IF Len(StoriesWithScreenshots) = 0
     THEN /\ pc' = "resolved"
          /\ results' = EntriesWithoutImages
          /\ UNCHANGED <<fn, hops, batchQueue, activeBatches, completedBatches, cur,
                         errors, task, wait, batchOk, itemOk, batchCalls, itemCalls,
                         fbCalls>>
     ELSE IF ~cfg.enableParallel \/ cfg.maxConcurrentBatches <= 1
     THEN fn' = "imgSeq" /\ hops' = hops + 1 /\ pc' = "start" /\ Unstarted
     ELSE /\ pc' = "launch"
          /\ batchQueue' = [k \in 1..NumBatches |-> k - 1]
          /\ UNCHANGED <<fn, hops, activeBatches, completedBatches, cur, results,
                         errors, task, wait, batchOk, itemOk, batchCalls, itemCalls,
                         fbCalls>>

\* processImagesInBatches, from its entry to the batch loop
EnterImages ==
  /\ fn = "imgSeq" /\ pc = "start"
  /\ IF Len(StoriesWithScreenshots) = 0
     THEN pc' = "resolved" /\ results' = [k \in 1..Len(stories) |-> SameEntry(stories[k].id)]
     ELSE pc' = "seqLoop" /\ UNCHANGED results
  /\ UNCHANGED <<launchLog, lastStep, stories, cfg, fn, hops, batchQueue, activeBatches,
                 completedBatches, cur, errors, task, wait, batchOk, itemOk,
                 batchCalls, itemCalls, fbCalls>>

\* loop test of processImagesInBatches and the iteration up to the awaited
\* request, or through `continue` when the batch has no readable image; after
\* the loop the entries without screenshot path are added
ImageSeqLoop ==
  /\ fn = "imgSeq" /\ pc = "seqLoop"
  /\ UNCHANGED lastStep
  /\ launchLog' = IF cur * cfg.batchSize < Len(StoriesWithScreenshots)
                  THEN Append(launchLog, cur) ELSE launchLog
  /\ IF cur * cfg.batchSize < Len(StoriesWithScreenshots)
     THEN IF ImageInputsOf(BatchOf(cur)) = <<>>
          THEN /\ results' = results \o AllEmbeddingNull(BatchOf(cur))
               /\ task' = [task EXCEPT ![cur].pc = "done"]
               /\ cur' = cur + 1
               /\ UNCHANGED <<pc, batchCalls>>
          ELSE /\ pc' = "seqBatch"
               /\ task' = [task EXCEPT ![cur].pc = "imgCall"]
               /\ batchCalls' = [batchCalls EXCEPT ![cur] = @ + 1]
               /\ UNCHANGED <<results, cur>>
     ELSE /\ pc' = "resolved"
          /\ results' = results \o EntriesWithoutImages
          /\ UNCHANGED <<task, batchCalls, cur>>
  /\ UNCHANGED <<stories, cfg, fn, hops, batchQueue, activeBatches, completedBatches,
                 errors, wait, batchOk, itemOk, itemCalls, fbCalls>>

\* the request of the current batch settles; after a fulfilled one
\* `if (i + batchSize < length)` the loop waits one second
ImageSeqCallReturns(ok, n) ==
  /\ fn = "imgSeq" /\ pc = "seqBatch" /\ task[cur].pc = "imgCall"
  /\ n \in 0..Len(ImageInputsOf(BatchOf(cur)))
  /\ batchOk' = [batchOk EXCEPT ![cur] = IF ok THEN "ok" ELSE "fail"]
  /\ task' = [task EXCEPT ![cur] = [pc |-> "done", j |-> IF ok THEN n ELSE 0,
                                    batchResults |-> <<>>, batchErrors |-> <<>>]]
  /\ results' = results \o ImageBatchResults(BatchOf(cur), ok, n)
  /\ cur' = cur + 1
  /\ pc' = IF ok /\ (cur + 1) * cfg.batchSize < Len(StoriesWithScreenshots)
           THEN "seqPace" ELSE "seqLoop"
  /\ UNCHANGED <<launchLog, lastStep, stories, cfg, fn, hops, batchQueue, activeBatches, completedBatches,
                 errors, wait, itemOk, batchCalls, itemCalls, fbCalls>>

\* the one second timer of processImagesInBatches fires
ImageSeqPaceDone ==
  /\ fn = "imgSeq" /\ pc = "seqPace"
  /\ pc' = "seqLoop"
  /\ UNCHANGED <<launchLog, lastStep, stories, cfg, fn, hops, batchQueue, activeBatches, completedBatches,
                 cur, results, errors, task, wait, batchOk, itemOk, batchCalls,
                 itemCalls, fbCalls>>

\* one iteration of the inner while: batchQueue.shift(),
\* processSingleEmbeddingBatch runs to the awaited request, or to its end when
\* the batch has no readable image; activeBatches.add
ImageLaunch ==
  /\ fn = "imgPar" /\ pc = "launch"
  /\ LaunchCond
  /\ launchLog' = Append(launchLog, Head(batchQueue))
  /\ lastStep' = "launch"
  /\ LET b == Head(batchQueue)
         call == ImageInputsOf(BatchOf(b)) # <<>>
     IN  /\ batchQueue' = Tail(batchQueue)
         /\ activeBatches' = activeBatches \cup {b}
         /\ task' = [task EXCEPT ![b] =
                       IF call THEN [@ EXCEPT !.pc = "imgCall"]
                       ELSE [pc |-> "returned", j |-> 0,
                             batchResults |-> AllEmbeddingNull(BatchOf(b)),
                             batchErrors |-> <<>>]]
         /\ batchCalls' = [batchCalls EXCEPT ![b] = IF call THEN @ + 1 ELSE @]
  /\ UNCHANGED <<stories, cfg, fn, hops, pc, completedBatches, cur, results, errors,
                 wait, batchOk, itemOk, itemCalls, fbCalls>>

\* the tasks that returned without awaiting anything: their .then handlers run,
\* in launch order, as soon as the scheduling loop suspends
ReturnedTasks == {b \in activeBatches : task[b].pc = "returned"}

\* after the loop: entriesWithoutImages.forEach(entry => results.push(...))
ImageFinish(before) ==
  results' = IF pc' = "resolved" THEN before \o EntriesWithoutImages ELSE before

\* the inner while is over: `if (activeBatches.size > 0) await Promise.race(...)`
ImageSuspend ==
  /\ fn = "imgPar" /\ pc = "launch"
  /\ ~LaunchCond
  /\ IF activeBatches # {}
     THEN /\ pc' = "race"
          /\ wait' = [kind |-> "race", set |-> activeBatches,
                      st |-> IF ReturnedTasks # {} THEN "fulfilled" ELSE "pending"]
          /\ results' = results \o
                 Concat([k \in 1..NumBatches |->
                           IF (k - 1) \in ReturnedTasks
                           THEN task[k - 1].batchResults ELSE <<>>], NumBatches)
          /\ task' = [b \in BatchIds |->
                        IF b \in ReturnedTasks THEN [task[b] EXCEPT !.pc = "done"]
                        ELSE task[b]]
          /\ activeBatches' = activeBatches \ ReturnedTasks
          /\ completedBatches' = completedBatches + Cardinality(ReturnedTasks)
     ELSE /\ AfterRace
          /\ ImageFinish(results)
          /\ UNCHANGED <<task, activeBatches, completedBatches>>
  /\ lastStep' = IF activeBatches # {} THEN "race" ELSE lastStep
  /\ UNCHANGED <<launchLog, stories, cfg, fn, hops, batchQueue, cur, errors, batchOk,
                 itemOk, batchCalls, itemCalls, fbCalls>>

\* the awaited Promise.race has settled and the function resumes (no task of
\* this function rejects, and no batch is active when the loop ends)
ImageResume ==
  /\ fn = "imgPar" /\ pc = "race"
  /\ wait.st = "fulfilled"
  /\ AfterRace
  /\ ImageFinish(results)
  /\ UNCHANGED <<launchLog, lastStep, stories, cfg, fn, hops, batchQueue, activeBatches, completedBatches,
                 cur, errors, task, batchOk, itemOk, batchCalls, itemCalls, fbCalls>>

\* the delayBetweenBatches timer of the scheduling loop fires
ImagePaceDone ==
  /\ fn = "imgPar" /\ pc = "pace"
  /\ LoopTest
  /\ ImageFinish(results)
  /\ lastStep' = "pace"
  /\ UNCHANGED <<launchLog, stories, cfg, fn, hops, batchQueue, activeBatches, completedBatches,
                 cur, errors, task, batchOk, itemOk, batchCalls, itemCalls, fbCalls>>

\* the request of batch b settles: the task returns its batchResults and the
\* .then handler of batchPromise pushes them to results
ImageCallReturns(b, ok, n) ==
  /\ fn = "imgPar" /\ pc \in {"race", "pace"}
  /\ task[b].pc = "imgCall"
  /\ n \in 0..Len(ImageInputsOf(BatchOf(b)))
  /\ batchOk' = [batchOk EXCEPT ![b] = IF ok THEN "ok" ELSE "fail"]
  /\ task' = [task EXCEPT ![b] = [pc |-> "done", j |-> IF ok THEN n ELSE 0,
                                  batchResults |-> ImageBatchResults(BatchOf(b), ok, n),
                                  batchErrors |-> <<>>]]
  /\ results' = results \o ImageBatchResults(BatchOf(b), ok, n)
  /\ activeBatches' = activeBatches \ {b}
  /\ completedBatches' = completedBatches + 1
  /\ wait' = Settle(b, TRUE, activeBatches \ {b})
  /\ UNCHANGED <<launchLog, lastStep, stories, cfg, fn, hops, pc, batchQueue, cur, errors, itemOk,
                 batchCalls, itemCalls, fbCalls>>

NextImage ==
  \/ EnterImagesParallel
  \/ EnterImages
  \/ ImageSeqLoop
  \/ ImageSeqPaceDone
  \/ ImageLaunch
  \/ ImageSuspend
  \/ ImageResume
  \/ ImagePaceDone
  \/ \E ok \in BOOLEAN, n \in 0..MaxBatchSize : ImageSeqCallReturns(ok, n)
  \/ \E b \in BatchIds, ok \in BOOLEAN, n \in 0..MaxBatchSize : ImageCallReturns(b, ok, n)

SpecImage == InitImage /\ [][NextImage]_vars

\* ---- the two embedding families together ------------------------------------
InitEmb == InitText \/ InitImage

NextEmb == NextText \/ NextImage

SpecEmb == InitEmb /\ [][NextEmb]_vars

\* ---- the inspection, text and image processors together ----------------------
InitProcessors == Init \/ InitText \/ InitImage

NextProcessors == Next \/ NextText \/ NextImage

SpecProcessors == InitProcessors /\ [][NextProcessors]_vars

\* ---- two runs at once -----------------------------------------------------------
\* analyzeStorybook starts embedding generation and LLM inspection on the same
\* stories and awaits both with Promise.all, so two scheduling loops are
\* suspended and resumed in turn.  Here every scheduler variable is a store
\* of bindings: batchQueue[c], activeBatches[c], completedBatches[c] and
\* results[c] are the values of the binding c; pc, cfg and wait are indexed by
\* run.  A member of an active set is a batchPromise, named by its run and
\* batch index.  A batch task is one step here: it touches nothing of the
\* scheduler until its .then handler runs.  Both runs have continueOnError
\* set and a delayBetweenBatches > 0, as analyzeStorybook passes them.
Runs == {1, 2}

\* C28 mutant: the bindings are created once for the module, both calls use them
Cell_ModuleLevel(r) == 1

\* `let batchQueue`, `let activeBatches`, `let completedBatches` and
\* `const results` are declared in the function body: a call creates its own
Cell(r) == r

RunNumBatches(r) ==
  (Len(StoriesWithScreenshots) + cfg[r].batchSize - 1) \div cfg[r].batchSize

RunBatchOf(r, b) ==
  SubSeq(StoriesWithScreenshots, b * cfg[r].batchSize + 1,
         Min((b + 1) * cfg[r].batchSize, Len(StoriesWithScreenshots)))

\* the outcomes the task of batch b of run r returns, one for each of its
\* stories (whether they are successes or failures plays no part here)
RunOutcomes(r, b) ==
  [k \in 1..Len(RunBatchOf(r, b)) |-> [run |-> r, story |-> RunBatchOf(r, b)[k]]]

TwoRunConfigs ==
  [Runs -> [batchSize : 1..MaxBatchSize, maxConcurrentBatches : 2..MaxConcurrent]]

InitTwoRuns ==
  /\ stories \in Inputs
  /\ cfg \in TwoRunConfigs
  /\ fn = "two"
  /\ hops = 0
  /\ pc = [r \in Runs |-> "start"]
  /\ batchQueue = [c \in Runs |-> <<>>]
  /\ activeBatches = [c \in Runs |-> {}]
  /\ completedBatches = [c \in Runs |-> 0]
  /\ cur = 0
  /\ results = [c \in Runs |-> <<>>]
  /\ errors = <<>>
  /\ task = [x \in Runs \X (0..(MaxItems - 1)) |-> "idle"]
  /\ wait = [r \in Runs |-> NoWait]
  /\ batchOk = <<>>
  /\ itemOk = <<>>
  /\ batchCalls = <<>>
  /\ itemCalls = <<>>
  /\ fbCalls = <<>>
  /\ launchLog = <<>>
  /\ lastStep = "none"

TwoRunsFixed ==
  UNCHANGED <<stories, cfg, fn, hops, cur, errors, batchOk, itemOk, batchCalls,
              itemCalls, fbCalls, launchLog, lastStep>>

\* the outer loop test of run r, and what follows the loop
RunLoopTest(r) ==
  IF completedBatches[Cell(r)] < RunNumBatches(r)
  THEN pc' = [pc EXCEPT ![r] = "launch"] /\ wait' = [wait EXCEPT ![r] = NoWait]
  ELSE IF activeBatches[Cell(r)] # {}
  THEN /\ pc' = [pc EXCEPT ![r] = "all"]
       /\ wait' = [wait EXCEPT ![r] = [kind |-> "all", set |-> activeBatches[Cell(r)],
                                       st |-> "pending"]]
  ELSE pc' = [pc EXCEPT ![r] = "resolved"] /\ wait' = [wait EXCEPT ![r] = NoWait]

\* what follows `await Promise.race(...)` in run r
RunAfterRace(r) ==
  IF Len(batchQueue[Cell(r)]) > 0
  THEN pc' = [pc EXCEPT ![r] = "pace"] /\ wait' = [wait EXCEPT ![r] = NoWait]
  ELSE RunLoopTest(r)

\* run r from its entry to the scheduling loop
RunEnter(r) ==
  /\ pc[r] = "start"
  /\ results' = [results EXCEPT ![Cell(r)] = <<>>]
  /\ IF Len(StoriesWithScreenshots) = 0
     THEN /\ pc' = [pc EXCEPT ![r] = "resolved"]
          /\ UNCHANGED <<batchQueue, activeBatches, completedBatches>>
     ELSE /\ pc' = [pc EXCEPT ![r] = "launch"]
          /\ batchQueue' = [batchQueue EXCEPT ![Cell(r)] =
                              [k \in 1..RunNumBatches(r) |-> k - 1]]
          /\ activeBatches' = [activeBatches EXCEPT ![Cell(r)] = {}]
          /\ completedBatches' = [completedBatches EXCEPT ![Cell(r)] = 0]
  /\ UNCHANGED <<task, wait>>
  /\ TwoRunsFixed

\* one iteration of the inner while of run r
RunLaunch(r) ==
  /\ pc[r] = "launch"
  /\ Cardinality(activeBatches[Cell(r)]) < cfg[r].maxConcurrentBatches
  /\ Len(batchQueue[Cell(r)]) > 0
  /\ LET b == Head(batchQueue[Cell(r)])
     IN  /\ batchQueue' = [batchQueue EXCEPT ![Cell(r)] = Tail(@)]
         /\ activeBatches' = [activeBatches EXCEPT ![Cell(r)] = @ \cup {<<r, b>>}]
         /\ task' = [task EXCEPT ![<<r, b>>] = "running"]
  /\ UNCHANGED <<pc, completedBatches, results, wait>>
  /\ TwoRunsFixed

\* the inner while of run r is over: `if (activeBatches.size > 0) await Promise.race(...)`
RunSuspend(r) ==
  /\ pc[r] = "launch"
  /\ ~(/\ Cardinality(activeBatches[Cell(r)]) < cfg[r].maxConcurrentBatches
       /\ Len(batchQueue[Cell(r)]) > 0)
  /\ IF activeBatches[Cell(r)] # {}
     THEN /\ pc' = [pc EXCEPT ![r] = "race"]
          /\ wait' = [wait EXCEPT ![r] = [kind |-> "race", set |-> activeBatches[Cell(r)],
                                          st |-> "pending"]]
     ELSE RunAfterRace(r)
  /\ UNCHANGED <<batchQueue, activeBatches, completedBatches, results, task>>
  /\ TwoRunsFixed

\* the task of batch b of run r returns and the .then handler of its
\* batchPromise runs: results.push(...), activeBatches.delete, completedBatches++
RunCompletes(r, b) ==
  /\ pc[r] \in {"race", "pace", "all"}
  /\ task[<<r, b>>] = "running"
  /\ results' = [results EXCEPT ![Cell(r)] = @ \o RunOutcomes(r, b)]
  /\ activeBatches' = [activeBatches EXCEPT ![Cell(r)] = @ \ {<<r, b>>}]
  /\ completedBatches' = [completedBatches EXCEPT ![Cell(r)] = @ + 1]
  /\ task' = [task EXCEPT ![<<r, b>>] = "done"]
  /\ wait' = [w \in Runs |->
                IF wait[w].st = "pending" /\ <<r, b>> \in wait[w].set
                THEN IF wait[w].kind = "race"
                          \/ wait[w].set \cap (activeBatches[Cell(r)] \ {<<r, b>>}) = {}
                     THEN [wait[w] EXCEPT !.st = "fulfilled"] ELSE wait[w]
                ELSE wait[w]]
  /\ UNCHANGED <<pc, batchQueue>>
  /\ TwoRunsFixed

\* the Promise.race / Promise.all run r awaits has settled and the function resumes
RunResume(r) ==
  /\ pc[r] \in {"race", "all"}
  /\ wait[r].st = "fulfilled"
  /\ IF pc[r] = "race" THEN RunAfterRace(r)
     ELSE pc' = [pc EXCEPT ![r] = "resolved"] /\ wait' = [wait EXCEPT ![r] = NoWait]
  /\ UNCHANGED <<batchQueue, activeBatches, completedBatches, results, task>>
  /\ TwoRunsFixed

\* the delayBetweenBatches timer of run r fires
RunPaceDone(r) ==
  /\ pc[r] = "pace"
  /\ RunLoopTest(r)
  /\ UNCHANGED <<batchQueue, activeBatches, completedBatches, results, task>>
  /\ TwoRunsFixed

NextTwoRuns ==
  \/ \E r \in Runs : RunEnter(r)
  \/ \E r \in Runs : RunLaunch(r)
  \/ \E r \in Runs : RunSuspend(r)
  \/ \E r \in Runs : RunResume(r)
  \/ \E r \in Runs : RunPaceDone(r)
  \/ \E r \in Runs, b \in 0..(MaxItems - 1) : RunCompletes(r, b)

SpecTwoRuns == InitTwoRuns /\ [][NextTwoRuns]_vars

\* ---- loadConfig (lib/config.js) ---------------------------------------------------
\* One call of loadConfig(cliArgs).  cfg holds what the four sources and the
\* GitHub Actions environment provide, results the object the call returns.
\* Two keys stand for all: `version`, which detectGitHubActionsContext may
\* set, and `apiKey`, which it never sets.  A value is written as the name of
\* the source it comes from.
ConfigKeys == {"version", "apiKey"}

\* an environment variable is not set, set to the empty string, or set to a value
EnvStates == {"unset", "empty", "set"}

\* { ...a, ...b }
Spread(a, b) ==
  [k \in DOMAIN a \cup DOMAIN b |-> IF k \in DOMAIN b THEN b[k] ELSE a[k]]

\* DEFAULT_CONFIG has every key
DefaultConfig == [k \in ConfigKeys |-> "default"]

\* the keys found in .storybook-deployer.json
FileConfigOf(keys) == [k \in keys |-> "file"]

\* the options yargs parsed from the command line
CliArgsOf(keys) == [k \in keys |-> "cli"]

\* loadEnvConfig: for each key SCRY_<KEY>, else STORYBOOK_DEPLOYER_<KEY>;
\* undefined and '' are filtered out
LoadEnvConfig(env) ==
  LET value(k) == IF env[k].scry = "set" THEN "set" ELSE env[k].legacy
      keys == {k \in ConfigKeys : value(k) = "set"}
  IN  [k \in keys |-> "env"]

\* detectGitHubActionsContext: version from the pull request number, the
\* branch or the tag in GITHUB_REF, else from GITHUB_SHA; {} outside GitHub Actions
DetectGitHubActionsContext(gh) ==
  LET fromRef == IF gh.pullRequest /\ gh.ref # "none" THEN gh.ref = "pull"
                 ELSE gh.ref \in {"heads", "tags"}
  IN  IF ~gh.actions THEN << >>
      ELSE IF fromRef \/ gh.sha THEN [k \in {"version"} |-> "github"]
      ELSE << >>

\* return { ...DEFAULT_CONFIG, ...fileConfig, ...envConfig, ...githubContext, ...cliArgs }
Resolve(c) ==
  Spread(Spread(Spread(Spread(DefaultConfig, FileConfigOf(c.file)),
                       LoadEnvConfig(c.env)), DetectGitHubActionsContext(c.github)),
         CliArgsOf(c.cli))

ConfigSources ==
  [ cli    : SUBSET ConfigKeys,
    file   : SUBSET ConfigKeys,
    env    : [ConfigKeys -> [scry : EnvStates, legacy : EnvStates]],
    github : [actions : BOOLEAN, pullRequest : BOOLEAN,
              ref : {"none", "pull", "heads", "tags", "other"}, sha : BOOLEAN] ]

InitConfig ==
  /\ stories = <<>>
  /\ cfg \in ConfigSources
  /\ fn = "loadConfig"
  /\ hops = 0
  /\ pc = "start"
  /\ batchQueue = <<>>
  /\ activeBatches = {}
  /\ completedBatches = 0
  /\ cur = 0
  /\ results = <<>>
  /\ errors = <<>>
  /\ task = <<>>
  /\ wait = NoWait
  /\ batchOk = <<>>
  /\ itemOk = <<>>
  /\ batchCalls = <<>>
  /\ itemCalls = <<>>
  /\ fbCalls = <<>>
  /\ launchLog = <<>>
  /\ lastStep = "none"

\* loadConfig(cliArgs) returns
LoadConfig ==
  /\ fn = "loadConfig" /\ pc = "start"
  /\ results' = Resolve(cfg)
  /\ pc' = "loaded"
  /\ UNCHANGED <<stories, cfg, fn, hops, batchQueue, activeBatches, completedBatches,
                 cur, errors, task, wait, batchOk, itemOk, batchCalls, itemCalls,
                 fbCalls, launchLog, lastStep>>

NextConfig == LoadConfig

SpecConfig == InitConfig /\ [][NextConfig]_vars

\* ---- a call that never returns ------------------------------------------------
\* C27 mutant: a timeout gives the call up, its task fails and frees the slot
CallHangs_TimesOut(b) ==
  /\ fn = "par"
  /\ task[b].pc \in {"batchCall", "itemCall", "fbCall"}
  /\ \A c \in BatchIds : task[c].pc # "hung"
  /\ task' = [task EXCEPT ![b].pc = "hung"]
  /\ activeBatches' = activeBatches \ {b}
  /\ completedBatches' = completedBatches + 1
  /\ wait' = Settle(b, FALSE, activeBatches \ {b})
  /\ UNCHANGED <<launchLog, lastStep, stories, cfg, fn, hops, pc, batchQueue, cur,
                 results, errors, batchOk, itemOk, batchCalls, itemCalls, fbCalls>>

\* the call a task of processStoriesInParallelBatches awaits (the batch call,
\* or an item call of either loop) is one that never returns: the await never
\* resumes and nothing else ends it.  At most one call of a run is such.
CallHangs(b) ==
  /\ fn = "par"
  /\ task[b].pc \in {"batchCall", "itemCall", "fbCall"}
  /\ \A c \in BatchIds : task[c].pc # "hung"
  /\ task' = [task EXCEPT ![b].pc = "hung"]
  /\ UNCHANGED <<launchLog, lastStep, stories, cfg, fn, hops, pc, batchQueue,
                 activeBatches, completedBatches, cur, results, errors, wait,
                 batchOk, itemOk, batchCalls, itemCalls, fbCalls>>

NextHung ==
  \/ Next
  \/ \E b \in BatchIds : CallHangs(b)

\* every other call returns or fails, timers fire, continuations run
HungSpec == Init /\ [][NextHung]_vars /\ WF_vars(NextHung)

\* ---- fairness -----------------------------------------------------------------
\* Every call returns or fails, every timer fires and every continuation is
\* run by the event loop: a step that stays possible is eventually taken.
FairSpec == Init /\ [][Next]_vars /\ WF_vars(Next)

FairSpecUpload == InitUpload /\ [][NextUpload]_vars /\ WF_vars(NextUpload)

\* ---- both families of processors: a run of any of the four functions ---------
InitAll == Init \/ InitText

NextAll == Next \/ NextText

SpecAll == InitAll /\ [][NextAll]_vars

\* ---- the scheduling loops alone -------------------------------------------------
\* Runs that reach the scheduling loop of a parallel entry function: the
\* function is called directly and its test `!enableParallel ||
\* maxConcurrentBatches <= 1` does not hand the work to the sequential function.
RunsParallelLoop == cfg.enableParallel /\ cfg.maxConcurrentBatches > 1

\* processStoriesInParallelBatches
InitPar == Init /\ fn = "par" /\ RunsParallelLoop

NextPar ==
  \/ EnterParallelBatches
  \/ Launch
  \/ Suspend
  \/ Resume
  \/ PaceDone
  \/ \E b \in BatchIds, ok \in BOOLEAN : BatchCallReturns(b, ok)
  \/ \E b \in BatchIds, ok \in BOOLEAN : ItemCallReturns(b, ok)
  \/ \E b \in BatchIds : ItemDelayDone(b)
  \/ \E b \in BatchIds, ok \in BOOLEAN : FallbackCallReturns(b, ok)

SpecPar == InitPar /\ [][NextPar]_vars

\* generateTextEmbeddingsInParallel
NextTextPar ==
  \/ EnterTextParallel
  \/ TextLaunch
  \/ TextSuspend
  \/ TextResume
  \/ TextPaceDone
  \/ \E b \in BatchIds, ok \in BOOLEAN, n \in 0..MaxBatchSize : TextCallReturns(b, ok, n)

\* processImagesInParallelBatches
NextImagePar ==
  \/ EnterImagesParallel
  \/ ImageLaunch
  \/ ImageSuspend
  \/ ImageResume
  \/ ImagePaceDone
  \/ \E b \in BatchIds, ok \in BOOLEAN, n \in 0..MaxBatchSize : ImageCallReturns(b, ok, n)

\* uploadFilesInParallel
NextUploadPar ==
  \/ EnterUploadParallel
  \/ UploadLaunch
  \/ UploadSuspend
  \/ UploadResume
  \/ UploadPaceDone
  \/ \E b \in BatchIds : UploadTaskRejects(b)
  \/ \E b \in BatchIds, oks \in SUBSET (1..MaxItems) : UploadBatchSettles(b, oks)

\* the inspection and the text embedding scheduling loops
InitParText == InitPar \/ (InitText /\ fn = "textPar" /\ RunsParallelLoop)

NextParText == NextPar \/ NextTextPar

SpecParText == InitParText /\ [][NextParText]_vars

\* the inspection and the image embedding scheduling loops
InitParImage == InitPar \/ (InitImage /\ fn = "imgPar" /\ RunsParallelLoop)

NextParImage == NextPar \/ NextImagePar

SpecParImage == InitParImage /\ [][NextParImage]_vars

\* the inspection and the upload scheduling loops
InitParUpload == InitPar \/ (InitUpload /\ fn = "upPar" /\ RunsParallelLoop)

NextParUpload == NextPar \/ NextUploadPar

SpecParUpload == InitParUpload /\ [][NextParUpload]_vars

\* ---- analyzeStorybook: the pipeline from the R2 upload on -----------------------
\* One behaviour is one call of analyzeStorybook, from Step 4 on.  fn is
\* "analyze"; stories is storiesWithScreenshots (the mapped stories); results
\* holds storiesWithR2 and then finalResults; launchLog lists the steps that
\* were started, errors the steps whose error a catch block swallowed; task is
\* the story list handed to the AI operations of Step 5.  cfg tells which steps
\* are configured (not skipped and their credentials present).
PipelineConfigs ==
  [ r2Configured          : BOOLEAN,
    runEmbeddings         : BOOLEAN,
    runInspection         : BOOLEAN,
    milvusConfigured      : BOOLEAN,
    milvusContinueOnError : BOOLEAN ]

\* a mapped story as the pipeline carries it
PipelineStory(s) ==
  [id |-> s.id, hasShot |-> s.hasShot, screenshotR2Url |-> FALSE, embedding |-> FALSE,
   inspection |-> FALSE, textEmbedding |-> FALSE]

\* `let storiesWithR2 = storiesWithScreenshots`
StoriesBeforeUpload == [k \in 1..Len(stories) |-> PipelineStory(stories[k])]

InitPipeline ==
  /\ stories \in Inputs
  /\ cfg \in PipelineConfigs
  /\ fn = "analyze"
  /\ pc = "r2"
  /\ results = StoriesBeforeUpload
  /\ errors = <<>>
  /\ launchLog = <<>>
  /\ task = <<>>
  /\ hops = 0
  /\ batchQueue = <<>>
  /\ activeBatches = {}
  /\ completedBatches = 0
  /\ cur = 0
  /\ wait = NoWait
  /\ batchOk = <<>>
  /\ itemOk = <<>>
  /\ batchCalls = <<>>
  /\ itemCalls = <<>>
  /\ fbCalls = <<>>
  /\ lastStep = "none"

PipelineFixed ==
  UNCHANGED <<stories, cfg, fn, hops, batchQueue, activeBatches, completedBatches,
              cur, wait, batchOk, itemOk, batchCalls, itemCalls, fbCalls, lastStep>>

\* C38 mutant: the catch block of Step 4 rethrows
R2Catch_Rethrows ==
  /\ pc' = "rejected"
  /\ errors' = Append(errors, "r2")
  /\ UNCHANGED results

\* catch (error) { ...; // Continue with pipeline even if R2 upload fails }
R2Catch ==
  /\ pc' = "ai"
  /\ errors' = Append(errors, "r2")
  /\ UNCHANGED results

\* Step 4 up to `await r2Uploader.uploadFilesInParallel(...)`; ctorOk: the
\* R2Uploader constructor returned (it throws on a configuration it rejects)
R2Step(ctorOk) ==
  /\ fn = "analyze" /\ pc = "r2"
  /\ IF ~cfg.r2Configured
     THEN pc' = "ai" /\ UNCHANGED <<results, errors, launchLog>>
     ELSE /\ launchLog' = Append(launchLog, "r2")
          /\ IF ~ctorOk
             THEN R2Catch
             ELSE IF \A k \in 1..Len(stories) : ~stories[k].hasShot
             THEN pc' = "ai" /\ UNCHANGED <<results, errors>>
             ELSE pc' = "r2Upload" /\ UNCHANGED <<results, errors>>
  /\ UNCHANGED task
  /\ PipelineFixed

\* uploadFilesInParallel settles: it rejects, or resolves with the records
\* of the uploaded files (urls: the stories whose file got an r2Url), which
\* storiesWithScreenshots.map(...) merges into storiesWithR2
R2UploadSettles(ok, urls) ==
  /\ fn = "analyze" /\ pc = "r2Upload"
  /\ \A s \in urls : s <= Len(stories) /\ stories[s].hasShot
  /\ IF ok
     THEN /\ results' = [k \in 1..Len(stories) |->
                           [StoriesBeforeUpload[k] EXCEPT !.screenshotR2Url = (k \in urls)]]
          /\ pc' = "ai"
          /\ UNCHANGED errors
     ELSE urls = {} /\ R2Catch
  /\ UNCHANGED <<launchLog, task>>
  /\ PipelineFixed

\* finalResults.some(s => s.inspection), on a story list
SomeInspection(list) == \E k \in 1..Len(list) : list[k].inspection

\* the test of Step 6
RunsTextEmbeddings(list) ==
  cfg.runEmbeddings /\ cfg.runInspection /\ SomeInspection(list)

\* the position behind Step 6 / Step 8 when the step is not entered
AfterAi(list) ==
  IF RunsTextEmbeddings(list) THEN "textWait"
  ELSE IF cfg.milvusConfigured THEN "milvusWait" ELSE "resolved"

AfterText == IF cfg.milvusConfigured THEN "milvusWait" ELSE "resolved"

\* the steps entered on the way to position p
StepsTo(p) ==
  IF p = "textWait" THEN <<"text">> ELSE IF p = "milvusWait" THEN <<"milvus">> ELSE <<>>

\* Step 5 up to `await Promise.all(parallelOperations)`: the operations are
\* started on storiesWithR2; with no operation to run the pipeline goes on
AiStep ==
  /\ fn = "analyze" /\ pc = "ai"
  /\ IF cfg.runEmbeddings \/ cfg.runInspection
     THEN /\ pc' = "aiWait"
          /\ task' = results
          /\ launchLog' = Append(launchLog, "ai")
     ELSE /\ pc' = AfterAi(results)
          /\ launchLog' = launchLog \o StepsTo(AfterAi(results))
          /\ UNCHANGED task
  /\ UNCHANGED <<results, errors>>
  /\ PipelineFixed

\* Promise.all of the AI operations settles; it is not caught: a rejection
\* rejects the pipeline.  emb: generateEmbeddings gave the stories with a
\* screenshot an embedding; ins: the stories the inspection succeeded for
AiSettles(ok, emb, ins) ==
  /\ fn = "analyze" /\ pc = "aiWait"
  /\ \A s \in ins : s <= Len(stories) /\ stories[s].hasShot
  /\ cfg.runInspection \/ ins = {}
  /\ emb => cfg.runEmbeddings
  /\ IF ~ok
     THEN /\ ins = {} /\ ~emb
          /\ pc' = "rejected"
          /\ UNCHANGED <<results, launchLog>>
     ELSE LET merged == [k \in 1..Len(task) |->
                           [task[k] EXCEPT !.embedding = (emb /\ task[k].hasShot),
                                           !.inspection = (k \in ins)]]
          IN  /\ results' = merged
              /\ pc' = AfterAi(merged)
              /\ launchLog' = launchLog \o StepsTo(AfterAi(merged))
  /\ UNCHANGED <<errors, task>>
  /\ PipelineFixed

\* generateTextEmbeddingsInParallel settles inside its try block
TextSettles(ok) ==
  /\ fn = "analyze" /\ pc = "textWait"
  /\ results' = IF ok
                THEN [k \in 1..Len(results) |->
                        [results[k] EXCEPT !.textEmbedding = results[k].inspection]]
                ELSE results
  /\ errors' = IF ok THEN errors ELSE Append(errors, "text")
  /\ pc' = AfterText
  /\ launchLog' = launchLog \o StepsTo(AfterText)
  /\ UNCHANGED task
  /\ PipelineFixed

\* the Milvus upload of Step 8 settles; its catch rethrows unless
\* milvusOptions.continueOnError
MilvusSettles(ok) ==
  /\ fn = "analyze" /\ pc = "milvusWait"
  /\ errors' = IF ok THEN errors ELSE Append(errors, "milvus")
  /\ pc' = IF ok \/ cfg.milvusContinueOnError THEN "resolved" ELSE "rejected"
  /\ UNCHANGED <<results, launchLog, task>>
  /\ PipelineFixed

NextPipeline ==
  \/ \E ctorOk \in BOOLEAN : R2Step(ctorOk)
  \/ \E ok \in BOOLEAN, urls \in SUBSET (1..MaxItems) : R2UploadSettles(ok, urls)
  \/ AiStep
  \/ \E ok \in BOOLEAN, emb \in BOOLEAN, ins \in SUBSET (1..MaxItems) : AiSettles(ok, emb, ins)
  \/ \E ok \in BOOLEAN : TextSettles(ok)
  \/ \E ok \in BOOLEAN : MilvusSettles(ok)

SpecPipeline == InitPipeline /\ [][NextPipeline]_vars

\* ---- cli.js: runAnalysis / runDeployment and the temporary archive --------------
\* One behaviour is one call of runAnalysis or runDeployment (fn).  task holds
\* the write stream of the archive function (none | opening | open | closed)
\* and whether a file exists at outPath; cur counts the entries the archiver
\* has written; launchLog lists the steps run, errors the step that threw.
\* fs.createWriteStream returns at once and opens (creates) the file later;
\* the archiver reports an error through its 'error' event, which rejects the
\* promise of the archive function and leaves the stream as it is.
CliConfigs ==
  [ withAnalysis  : BOOLEAN,   \* argv.withAnalysis (runDeployment)
    storybookUrl  : BOOLEAN,   \* argv.storybookUrl is set
    staticsiteDir : BOOLEAN,   \* argv.dir exists
    screenshotsDir : BOOLEAN ] \* argv.screenshotsDir exists

\* runAnalysis always analyses; runDeployment when argv.withAnalysis
WithAnalysis == fn = "runAnalysis" \/ cfg.withAnalysis

\* the entries the archive function adds before archive.finalize()
ArchiveEntries ==
  IF WithAnalysis
  THEN (IF fn = "runDeployment" /\ cfg.staticsiteDir THEN 1 ELSE 0)
       + (IF cfg.screenshotsDir THEN 1 ELSE 0) + 1
  ELSE 1

InitCli ==
  /\ fn \in {"runAnalysis", "runDeployment"}
  /\ cfg \in CliConfigs
  /\ pc = "start"
  /\ task = [stream |-> "none", file |-> FALSE]
  /\ cur = 0
  /\ launchLog = <<>>
  /\ errors = <<>>
  /\ stories = <<>>
  /\ results = <<>>
  /\ hops = 0
  /\ batchQueue = <<>>
  /\ activeBatches = {}
  /\ completedBatches = 0
  /\ wait = NoWait
  /\ batchOk = <<>>
  /\ itemOk = <<>>
  /\ batchCalls = <<>>
  /\ itemCalls = <<>>
  /\ fbCalls = <<>>
  /\ lastStep = "none"

CliFixed ==
  UNCHANGED <<stories, cfg, fn, hops, batchQueue, activeBatches, completedBatches,
              results, wait, batchOk, itemOk, batchCalls, itemCalls, fbCalls, lastStep>>

\* a step threw inside the try block: control goes to the finally block
Throws(step) ==
  /\ pc' = "finally"
  /\ errors' = Append(errors, step)

\* createMasterZip / zipDirectory is called: fs.createWriteStream(outPath)
\* returns a stream that is yet to open, and the function's promise is awaited
CallArchive ==
  /\ pc' = "archiveWait"
  /\ task' = [task EXCEPT !.stream = "opening"]
  /\ launchLog' = Append(launchLog, "archive")
  /\ UNCHANGED errors

\* entry of the try block: the first step of the path taken
CliStart ==
  /\ fn \in {"runAnalysis", "runDeployment"} /\ pc = "start"
  /\ IF WithAnalysis
     THEN /\ pc' = IF cfg.storybookUrl THEN "captureWait" ELSE "analyze"
          /\ launchLog' = IF cfg.storybookUrl THEN <<"capture">> ELSE <<>>
          /\ UNCHANGED <<task, errors>>
     ELSE CallArchive
  /\ UNCHANGED cur
  /\ CliFixed

\* await captureScreenshots(...) settles
CaptureSettles(ok) ==
  /\ pc = "captureWait"
  /\ IF ok THEN pc' = "analyze" /\ UNCHANGED errors ELSE Throws("capture")
  /\ UNCHANGED <<task, cur, launchLog>>
  /\ CliFixed

\* analyzeStorybook(...) returns or throws; then the archive function is called
AnalyzeStep(ok) ==
  /\ pc = "analyze"
  /\ IF ok
     THEN CallArchive
     ELSE /\ Throws("analysis")
          /\ launchLog' = Append(launchLog, "analysis")
          /\ UNCHANGED task
  /\ UNCHANGED cur
  /\ CliFixed

\* the write stream's open completes: the file is created at outPath.  It is
\* an I/O completion of its own, whatever the function is doing meanwhile
StreamOpens ==
  /\ fn \in {"runAnalysis", "runDeployment"}
  /\ task.stream = "opening"
  /\ task' = [stream |-> "open", file |-> TRUE]
  /\ UNCHANGED <<pc, cur, launchLog, errors>>
  /\ CliFixed

\* the archiver has read one more entry (a directory or metadata.json)
ArchiveEntryRead ==
  /\ pc = "archiveWait" /\ cur < ArchiveEntries
  /\ cur' = cur + 1
  /\ UNCHANGED <<pc, task, launchLog, errors>>
  /\ CliFixed

\* archive.on('error', err => reject(new FileSystemError(...))): reading an
\* entry failed; the awaited promise rejects, the stream is not closed
ArchiveError ==
  /\ pc = "archiveWait" /\ cur < ArchiveEntries
  /\ Throws("archive")
  /\ UNCHANGED <<task, cur, launchLog>>
  /\ CliFixed

\* stream.on('close', () => resolve()): everything is written; the function
\* goes on to uploadFileDirectly, which reads the archive and uploads it
ArchiveCloses ==
  /\ pc = "archiveWait" /\ cur = ArchiveEntries /\ task.stream = "open"
  /\ task' = [task EXCEPT !.stream = "closed"]
  /\ pc' = "uploadWait"
  /\ launchLog' = Append(launchLog, "upload")
  /\ UNCHANGED <<cur, errors>>
  /\ CliFixed

\* await uploadFileDirectly(...) settles
UploadSettles(ok) ==
  /\ pc = "uploadWait"
  /\ IF ok THEN pc' = "finally" /\ UNCHANGED errors ELSE Throws("upload")
  /\ UNCHANGED <<task, cur, launchLog>>
  /\ CliFixed

\* finally { if (fs.existsSync(outPath)) fs.unlinkSync(outPath) }, and the
\* function settles: it rejects with the error thrown in the try block
Finally ==
  /\ fn \in {"runAnalysis", "runDeployment"} /\ pc = "finally"
  /\ task' = [task EXCEPT !.file = FALSE]
  /\ pc' = IF errors = <<>> THEN "resolved" ELSE "rejected"
  /\ UNCHANGED <<cur, launchLog, errors>>
  /\ CliFixed

NextCli ==
  \/ CliStart
  \/ \E ok \in BOOLEAN : CaptureSettles(ok)
  \/ \E ok \in BOOLEAN : AnalyzeStep(ok)
  \/ StreamOpens
  \/ ArchiveEntryRead
  \/ ArchiveError
  \/ ArchiveCloses
  \/ \E ok \in BOOLEAN : UploadSettles(ok)
  \/ Finally

SpecCli == InitCli /\ [][NextCli]_vars

\* ---- derived views of a run --------------------------------------------------
\* batch tasks that have been launched and have not completed
InFlight == {b \in BatchIds : task[b].pc \notin {"idle", "done", "failed"}}

\* positions of the results array that hold an outcome of story s
OutcomesFor(s) == {i \in 1..Len(results) : results[i].story = s}

\* a call failed and nothing recovered it: an item call, or a batch call
\* of a batch for which the catch block has no fallback
UnrecoveredFailure ==
  \/ \E s \in 1..Len(stories) : itemOk[s] = "fail"
  \/ \E b \in BatchIds : batchOk[b] = "fail" /\ ~FallbackCond(BatchOf(b))

\* the items of batch b that contributed an input to its request: every story
\* of a text batch, the entries with a readable image of an image batch
SentInRequest(b) == IF IsImage THEN ImageInputsOf(BatchOf(b)) ELSE BatchOf(b)

\* the records a processor returns for an item s whose processing failed
FailureForms(s) ==
  IF IsImage THEN {EmbeddingNull(s)}
  ELSE IF IsText THEN {WithoutEmbedding(s)}
  ELSE {Failure(s, src, ref) : src \in {"batch", "item"}, ref \in 0..MaxItems}

\* the run is inside one of the scheduling loops
IsParallelRun == fn \in {"par", "textPar", "imgPar", "upPar"}

\* how many times the task of batch b was started
Launches(b) == Cardinality({i \in 1..Len(launchLog) : launchLog[i] = b})

\* the outcomes the task of batch b has recorded so far: its batchResults
\* array (parallel) or what it pushed to results (sequential loop)
Recorded(b) ==
  IF fn = "par" THEN task[b].batchResults
  ELSE SelectSeq(results, LAMBDA r : r.story \in Members(BatchOf(b)))

\* the task of batch b has entered the fallback loop of its catch block
InFallback(b) ==
  /\ batchOk[b] = "fail"
  /\ FallbackCond(BatchOf(b))
  /\ task[b].pc \in {"fbCall", "done", "failed"}

\* the outcome the recorded inspectComponent call of story s gives
ItemOutcome(s) ==
  IF itemOk[s] = "ok" THEN Success(s, "item", s) ELSE Failure(s, "item", s)

\* what one iteration of the loop of processStoriesInBatches pushes to results
\* for batch b under continueOnError, given the recorded behaviour of the calls
SeqBatchResults(b) ==
  LET batch == BatchOf(b)
      each == [k \in 1..Len(batch) |-> ItemOutcome(batch[k])]
  IN  IF UseBatchCall(batch)
      THEN IF batchOk[b] = "ok" THEN ZipResults(batch, ApiResults(batch))
           ELSE IF FallbackCond(batch) THEN each
           ELSE [k \in 1..Len(batch) |-> Failure(batch[k], "batch", b)]
      ELSE each

\* what the loop of processStoriesInBatches returns under continueOnError for
\* the recorded behaviour of the calls: the batches' pushes in batch order
SequentialResults ==
  Concat([k \in 1..NumBatches |-> SeqBatchResults(k - 1)], NumBatches)

\* the fold above is what the sequential actions compute
SequentialFoldAgrees ==
  (fn = "seq" /\ pc = "resolved" /\ cfg.continueOnError) => results = SequentialResults

\* ---- claims ------------------------------------------------------------------

\* C1: when a run returns, the number of outcomes it returns equals the number
\* of input items it was given.
C1_CountInvariant == pc = "resolved" => Len(results) = Len(stories)

\* C2: in every reachable state of a parallel run the number of batch tasks
\* launched and not yet completed is at most maxConcurrentBatches.
C2_ConcurrencyBound ==
  fn = "par" => Cardinality(InFlight) <= cfg.maxConcurrentBatches

\* C2 witness: the ceiling is reached while a batch is still queued.
C2_Witness ==
  /\ fn = "par"
  /\ Cardinality(InFlight) = cfg.maxConcurrentBatches
  /\ Len(batchQueue) > 0
  /\ pc \in {"race", "pace"}

\* C3: the returned collection is in input order: the outcome at position i
\* belongs to input item i, whatever the completion order of the batches
\* (stated for inputs whose stories all have a screenshot, continueOnError).
C3_InputOrder ==
  (/\ pc = "resolved"
   /\ cfg.continueOnError
   /\ \A k \in 1..Len(stories) : stories[k].hasShot)
  => \A i \in 1..Len(results) : results[i].story = stories[i].id

\* C4: with continueOnError = false, once a call has failed (an item call, or
\* a batch call that no fallback recovers) the run never resolves normally.
C4_AbortOnError ==
  (~cfg.continueOnError /\ UnrecoveredFailure) => pc # "resolved"

\* C5: when a parallel run resolves normally every story that was placed in a
\* batch has at least one outcome in the returned collection.
C5_NoItemLost ==
  (fn = "par" /\ pc = "resolved")
  => \A k \in 1..Len(StoriesWithScreenshots) :
       OutcomesFor(StoriesWithScreenshots[k]) # {}

\* C6: in every reachable state at most one outcome is recorded for each item.
C6_AtMostOneOutcome ==
  \A s \in 1..Len(stories) : Cardinality(OutcomesFor(s)) <= 1

\* C7: the parallel scheduler returns exactly the results the sequential loop
\* returns for the same items and the same behaviour of the operations.
C7_SameAsSequential ==
  (fn = "par" /\ pc = "resolved" /\ cfg.continueOnError)
  => results = SequentialResults

C9_FallbackEquivalence ==
  (/\ pc = "resolved"
   /\ cfg.continueOnError
   /\ cfg.fallbackToIndividual
   /\ \A b \in BatchIds : batchOk[b] # "ok"
   /\ \E b \in BatchIds : batchOk[b] = "fail")
  => results = [k \in 1..Len(StoriesWithScreenshots) |->
                  ItemOutcome(StoriesWithScreenshots[k])]

\* C10: a per-item call of the fallback loop is made for a story only if the
\* batch operation call of its batch failed, fallbackToIndividual is true and
\* the batch has more than one item; a batch whose batch operation call failed
\* with fallbackToIndividual = false gets no per-item call at all.
C10_FallbackOnlyWhen ==
  \A b \in BatchIds :
    /\ (\/ task[b].pc = "fbCall"
        \/ \E s \in Members(BatchOf(b)) : fbCalls[s] > 0)
       => /\ batchOk[b] = "fail"
          /\ cfg.fallbackToIndividual
          /\ Len(BatchOf(b)) > 1
    /\ (batchOk[b] = "fail" /\ ~cfg.fallbackToIndividual)
       => \A s \in Members(BatchOf(b)) : itemCalls[s] = 0

\* C10 witness: the fallback loop has called the item operation.
C10_Witness == \E s \in 1..Len(stories) : fbCalls[s] > 0

\* C11 (amended): in the fallback after a failed batch call the item operation
\* is called for the items of the batch one at a time in batch order, at most
\* once each, and every call that has returned is recorded as that item's own
\* outcome; with continueOnError = true a failed call does not end the loop,
\* so a task that is over has called every item exactly once; with
\* continueOnError = false the first failed call ends the loop and the task.
C11_FallbackLoop ==
  \A b \in BatchIds :
    InFallback(b)
    => LET batch == BatchOf(b)
           over == task[b].pc # "fbCall"
           called == IF task[b].pc = "done" THEN Len(batch) ELSE task[b].j
           returned == IF task[b].pc = "fbCall" THEN called - 1 ELSE called
       IN  /\ \A k \in 1..Len(batch) :
                /\ itemCalls[batch[k]] = (IF k <= called THEN 1 ELSE 0)
                /\ fbCalls[batch[k]] = itemCalls[batch[k]]
           /\ Recorded(b) = [k \in 1..returned |-> ItemOutcome(batch[k])]
           /\ \A k \in 1..returned : itemOk[batch[k]] # "none"
           /\ (over /\ cfg.continueOnError) => called = Len(batch)
           /\ task[b].pc = "failed"
              => ~cfg.continueOnError /\ itemOk[batch[called]] = "fail"

\* C11 witness: a fallback loop went on after its first call failed and is over.
C11_Witness ==
  \E b \in BatchIds :
    /\ InFallback(b) /\ task[b].pc = "done"
    /\ itemOk[BatchOf(b)[1]] = "fail"
    /\ fbCalls[BatchOf(b)[2]] = 1

\* C11 as stated: whenever a fallback loop is over, every item of the failed
\* batch has been called (a failed call never prevents the remaining calls).
C11_Original ==
  \A b \in BatchIds :
    (InFallback(b) /\ task[b].pc # "fbCall")
    => \A k \in 1..Len(BatchOf(b)) : itemCalls[BatchOf(b)[k]] = 1

\* C12: when the batch operation call of a batch fails and fallbackToIndividual
\* is false, the task records for every story of the batch, in batch order, a
\* Failure carrying the batch error, the item operation is never called for a
\* story of the batch, and the task is over at once (returning these outcomes
\* under continueOnError, which a resolved run then holds; rethrowing otherwise).
C12_NoFallbackFailsBatch ==
  \A b \in BatchIds :
    (batchOk[b] = "fail" /\ ~cfg.fallbackToIndividual)
    => LET batch == BatchOf(b)
           fails == [k \in 1..Len(batch) |-> Failure(batch[k], "batch", b)]
       IN  /\ \A k \in 1..Len(batch) : itemCalls[batch[k]] = 0 /\ itemOk[batch[k]] = "none"
           /\ Recorded(b) = fails
           /\ task[b].pc = (IF cfg.continueOnError THEN "done" ELSE "failed")
           /\ (pc = "resolved" /\ cfg.continueOnError)
              => /\ SelectSeq(results, LAMBDA r : r.story \in Members(batch)) = fails
                 /\ SelectSeq(errors, LAMBDA r : r.story \in Members(batch)) = fails

\* C12 witness: a run resolved holding the Failures of a batch whose batch
\* operation call failed with the fallback switched off.
C12_Witness ==
  /\ pc = "resolved" /\ cfg.continueOnError /\ ~cfg.fallbackToIndividual
  /\ \E b \in BatchIds : batchOk[b] = "fail" /\ Len(BatchOf(b)) = MaxBatchSize

\* C13 (amended): in the inspection processors a batch of exactly one story is
\* never given to the batch operation: once its task has started, its story
\* has been given to the item operation exactly once (by the individual loop,
\* not the fallback) and the first outcome recorded for it is that call's; with
\* batchSize = 1 no batch operation call is made in the whole run.  The text
\* embedding processors have a single operation, the embeddings request, and
\* post it once for every batch they start, single-story batches included.
C13_SingleItemRouting ==
  /\ ~IsText
     => /\ \A b \in BatchIds :
             Len(BatchOf(b)) = 1
             => LET s == BatchOf(b)[1]
                IN  /\ batchCalls[b] = 0 /\ batchOk[b] = "none"
                    /\ fbCalls[s] = 0
                    /\ itemCalls[s] = (IF task[b].pc = "idle" THEN 0 ELSE 1)
                    /\ task[b].pc \in {"done", "failed"}
                       => Len(Recorded(b)) >= 1 /\ Recorded(b)[1] = ItemOutcome(s)
        /\ cfg.batchSize = 1 => \A b \in BatchIds : batchCalls[b] = 0
  /\ IsText
     => \A b \in BatchIds :
          /\ batchCalls[b] = (IF task[b].pc = "idle" THEN 0 ELSE 1)
          /\ \A k \in 1..Len(BatchOf(b)) : itemCalls[BatchOf(b)[k]] = 0

\* C13 witness: an inspection run resolved in which one batch was served by the
\* batch operation and a single-story batch by the item operation.
C13_Witness ==
  /\ fn = "par" /\ pc = "resolved" /\ cfg.useBatchAPI
  /\ \E b \in BatchIds : batchCalls[b] = 1
  /\ \E b \in BatchIds : Len(BatchOf(b)) = 1 /\ itemCalls[BatchOf(b)[1]] = 1

\* C13 as stated: the batch operation is never invoked for a batch of one item.
C13_Original ==
  \A b \in BatchIds : Len(BatchOf(b)) = 1 => batchCalls[b] = 0

C15_LaunchedExactlyOnce ==
  \A b \in BatchIds :
    /\ Launches(b) = (IF task[b].pc = "idle" THEN 0 ELSE 1)
    /\ pc = "resolved" => Launches(b) = 1

\* C15 witness: a parallel run of at least three batches resolved.
C15_Witness ==
  /\ pc = "resolved" /\ fn \in {"par", "textPar"}
  /\ NumBatches >= 3 /\ Len(launchLog) = NumBatches

\* C16: batches are launched in input order: the k-th task started is the
\* task of the k-th batch, whatever has completed in between.
C16_LaunchOrder ==
  \A i \in 1..Len(launchLog) : launchLog[i] = i - 1

\* C16 witness: the third batch was launched after the second had completed
\* while the first was still running.
C16_Witness ==
  /\ fn = "textPar" /\ Len(launchLog) >= 3
  /\ task[1].pc = "done" /\ task[0].pc = "textCall"

\* C17: with continueOnError = true no task throws and the run never rejects,
\* whatever calls fail; short of its resolution the run can always take a
\* step (nothing waits on a failed sibling); and when it resolves every batch
\* has run to the end and holds exactly the outcomes its own calls determine.
C17_SiblingsUnaffected ==
  (fn \in {"seq", "par"} /\ cfg.continueOnError)
  => /\ pc # "rejected"
     /\ \A b \in BatchIds : task[b].pc # "failed"
     /\ pc \notin {"resolved", "hung"} => ENABLED Next
     /\ pc = "resolved"
        => \A b \in BatchIds :
             /\ task[b].pc = "done" /\ Launches(b) = 1
             /\ SelectSeq(results, LAMBDA r : r.story \in Members(BatchOf(b)))
                = SeqBatchResults(b)

\* C17 witness: a parallel run over single-story batches resolved; the first
\* batch to complete failed and a batch that completed after it, launched into
\* the freed slot, succeeded.
C17_Witness ==
  /\ fn = "par" /\ pc = "resolved" /\ cfg.continueOnError
  /\ cfg.batchSize = 1 /\ cfg.maxConcurrentBatches = 2
  /\ Len(results) >= 3
  /\ ~results[1].success /\ results[3].success

\* C18: with continueOnError = false, once a call has failed and nothing
\* recovered it (an item call, or a batch call without fallback) no step
\* launches a further batch.
C18_NoLaunchAfterFailure ==
  [][(~cfg.continueOnError /\ UnrecoveredFailure) => launchLog' = launchLog]_vars

\* C19: in the processor that always continues past failures (the parallel
\* upload), an error that escapes a batch task is caught at the task boundary:
\* the run never rejects, and when it resolves every file of every batch is
\* recorded, as an upload or as a failure.
C19_CaughtAtTaskBoundary ==
  fn = "upPar"
  => /\ pc # "rejected"
     /\ pc = "resolved"
        => \A s \in 1..Len(stories) :
             \/ \E i \in 1..Len(results) : results[i].story = s
             \/ \E i \in 1..Len(errors) : errors[i].story = s

\* C20: a run started with batchSize <= 0 (here over at least one story to
\* batch) ends, as soon as it leaves its entry, rejected (with a configuration
\* error) and without having called the batch operation or the item operation.
C20_ConfigError ==
  (cfg.batchSize < 1 /\ Len(StoriesWithScreenshots) > 0 /\ pc # "start")
  => /\ pc = "rejected"
     /\ \A b \in BatchIds : batchCalls[b] = 0
     /\ \A s \in 1..Len(stories) : itemCalls[s] = 0

\* C21: once the batcher has run (batchSize >= 1), the batches concatenated in
\* order are exactly the filtered story list; every batch is non-empty, every
\* batch but the last has exactly batchSize stories and the last has between
\* 1 and batchSize; the queue of a parallel run holds one entry per batch, in
\* order (the sequential loops slice the same way as they go).
C21_BatcherPartition ==
  (pc \in {"launch", "seqLoop"} /\ launchLog = <<>> /\ cfg.batchSize >= 1)
  => /\ Concat([k \in 1..NumBatches |-> BatchOf(k - 1)], NumBatches)
        = StoriesWithScreenshots
     /\ \A b \in BatchIds :
          /\ Len(BatchOf(b)) >= 1 /\ Len(BatchOf(b)) <= cfg.batchSize
          /\ b < NumBatches - 1 => Len(BatchOf(b)) = cfg.batchSize
     /\ pc = "launch" => batchQueue = [k \in 1..NumBatches |-> k - 1]

\* C21 witness: the batcher produced several batches, the last one short.
C21_Witness ==
  /\ pc = "launch" /\ launchLog = <<>>
  /\ NumBatches >= 2 /\ cfg.batchSize >= 2
  /\ Len(BatchOf(NumBatches - 1)) < cfg.batchSize

\* C22 (as stated): when the request of a batch is fulfilled with fewer results
\* than the batch has items, every item of the batch has exactly one outcome,
\* the leading items are paired in order with the results, and every trailing
\* item has an unsuccessful outcome.
C22_Original ==
  \A b \in BatchIds :
    (batchOk[b] = "ok" /\ task[b].pc = "done" /\ task[b].j < Len(BatchOf(b)))
    => \A k \in 1..Len(BatchOf(b)) :
         /\ Cardinality(OutcomesFor(BatchOf(b)[k])) = 1
         /\ \A i \in OutcomesFor(BatchOf(b)[k]) :
              IF k <= task[b].j
              THEN results[i].success /\ results[i].ref = k
              ELSE ~results[i].success

\* C22 (amended): when the request of a batch is fulfilled with fewer results
\* than the batch has items, every item of the batch has exactly one outcome;
\* the results are paired in order with the items that were sent in the
\* request, and every other item of the batch has an unsuccessful outcome.
C22_ShortResult ==
  \A b \in BatchIds :
    (batchOk[b] = "ok" /\ task[b].pc = "done" /\ task[b].j < Len(BatchOf(b)))
    => LET sent == SentInRequest(b)
       IN  /\ \A s \in Members(BatchOf(b)) : Cardinality(OutcomesFor(s)) = 1
           /\ \A k \in 1..Len(sent) : \A i \in OutcomesFor(sent[k]) :
                IF k <= task[b].j
                THEN results[i].success /\ results[i].ref = k
                ELSE ~results[i].success
           /\ \A s \in Members(BatchOf(b)) \ Members(sent) :
                \A i \in OutcomesFor(s) : ~results[i].success

\* C22 witness: an image run has returned after a request for two images was
\* answered with one embedding
C22_Witness ==
  /\ IsImage /\ pc = "resolved"
  /\ \E b \in BatchIds :
       /\ batchOk[b] = "ok" /\ task[b].pc = "done"
       /\ task[b].j = 1 /\ Len(SentInRequest(b)) = 2

\* C23: when a run returns, every input item that lacks the precondition for
\* processing (no screenshot path, no searchable text) has an outcome in the
\* returned collection, and that outcome is not one a failed item could have.
C23_SkippedOutcome ==
  pc = "resolved"
  => \A k \in 1..Len(stories) :
       ~HasScreenshot(stories[k])
       => /\ OutcomesFor(k) # {}
          /\ \A i \in OutcomesFor(k) : results[i] \notin FailureForms(k)

Settled == pc \in {"resolved", "rejected"}

Hung == {b \in BatchIds : task[b].pc = "hung"}

\* C27 (as stated): a batch whose call never returns keeps its slot and the
\* run never settles, while every other batch is launched and completes.
C27_Original ==
  /\ [](\A b \in Hung : b \in activeBatches /\ ~Settled)
  /\ (Hung # {}) ~> (\A b \in BatchIds \ Hung : task[b].pc \in {"done", "failed"})

\* C27 (amended): a batch whose call never returns keeps its slot and the run
\* never resolves; the run settles only by the rejection that the failure of
\* another batch causes when continueOnError is false, and unless it is
\* rejected so, every other batch is launched and completes.
C27_HungCall ==
  /\ [](\A b \in Hung : b \in activeBatches /\ pc # "resolved")
  /\ []((Hung # {} /\ pc = "rejected") => (~cfg.continueOnError /\ UnrecoveredFailure))
  /\ (Hung # {}) ~> (\/ pc = "rejected"
                     \/ \A b \in BatchIds \ Hung : task[b].pc \in {"done", "failed"})

\* C27 witness: the first of three batches hangs, the other two have
\* completed through the remaining slot, and the run still waits
C27_Witness ==
  /\ fn = "par" /\ pc = "race" /\ NumBatches >= 3
  /\ Hung = {0} /\ activeBatches = {0} /\ batchQueue = <<>>
  /\ \A b \in BatchIds \ Hung : task[b].pc = "done"

\* the batch tasks of run r that are running
RunningOf(r) == {x \in DOMAIN task : x[1] = r /\ task[x] = "running"}

C29_EveryFileOnce ==
  (fn \in {"upPar", "upSeq"} /\ cfg.batchSize >= 1)
  => /\ pc # "rejected"
     /\ \A s \in 1..Len(stories) : itemCalls[s] <= 1
     /\ pc = "resolved"
        => /\ \A s \in 1..Len(stories) :
                /\ itemCalls[s] = 1
                /\ Cardinality(OutcomesFor(s)) = IF itemOk[s] = "ok" THEN 1 ELSE 0
           /\ \A i \in 1..Len(results) : results[i] = Uploaded(results[i].story)

\* the source the four-level order gives key k: command line, else
\* environment variable, else configuration file, else default
FourLevelSource(k) ==
  IF k \in cfg.cli THEN "cli"
  ELSE IF k \in DOMAIN LoadEnvConfig(cfg.env) THEN "env"
  ELSE IF k \in cfg.file THEN "file"
  ELSE "default"

\* C30: the configuration loadConfig returns has, for every key, the value of
\* the highest-precedence source that supplies the key, in the order command
\* line > environment variables > configuration file > defaults.
C30_Precedence ==
  pc = "loaded" => \A k \in ConfigKeys : results[k] = FourLevelSource(k)

\* C31: whenever the scheduling loop of processStoriesInParallelBatches begins
\* to await Promise.race, the queue is empty or exactly maxConcurrentBatches
\* batch tasks are active.
C31_NoIdleSlot ==
  [][(pc # "race" /\ pc' = "race")
     => \/ Len(batchQueue') = 0
        \/ Cardinality(activeBatches') = cfg.maxConcurrentBatches]_vars

\* C31 witness: the loop awaits Promise.race with every slot taken and a batch
\* still queued, after an earlier batch has completed.
C31_Witness ==
  /\ fn = "par" /\ pc = "race" /\ wait.st = "pending"
  /\ Len(batchQueue) > 0 /\ completedBatches > 0
  /\ Cardinality(activeBatches) = cfg.maxConcurrentBatches

\* C32: whenever a scheduling loop (inspection, upload) is suspended, in the
\* Promise.race wait or in the pacing wait, completedBatches plus the number of
\* active batch tasks plus the number of queued batches is the number of
\* batches; and no step decreases completedBatches.
C32_BatchConservation ==
  [][/\ pc' \in {"race", "pace", "all"}
        => completedBatches' + Cardinality(activeBatches') + Len(batchQueue')
           = NumBatches
     /\ completedBatches' >= completedBatches]_vars

\* C32 witness: an upload run is suspended with batches completed (one of them
\* rejected), active and queued.
C32_Witness ==
  /\ fn = "upPar" /\ pc \in {"race", "pace"}
  /\ completedBatches > 0 /\ activeBatches # {} /\ Len(batchQueue) > 0
  /\ \E b \in BatchIds : task[b].pc = "failed"

\* C33: a scheduling loop (inspection, text embeddings) is never left with a
\* batch active, so the trailing Promise.all is never awaited; and once the
\* loop has been left every batch has completed, the queue is empty and no
\* batch task is active.
C33_NothingLeftToAwait ==
  /\ pc # "all"
  /\ (pc = "resolved" /\ NumBatches > 0)
     => /\ completedBatches = NumBatches
        /\ batchQueue = <<>>
        /\ activeBatches = {}

\* C33 witness: a run of more batches than slots has left its loop, the last
\* step of the loop having been a Promise.race wait.
C33_Witness ==
  /\ pc = "resolved" /\ lastStep = "race"
  /\ NumBatches > cfg.maxConcurrentBatches
  /\ completedBatches = NumBatches

\* the positions of results that hold an outcome of a story of batch b
PositionsOf(b) == {i \in 1..Len(results) : results[i].story \in Members(BatchOf(b))}

\* C34: in the results of a parallel run (inspection, image embeddings) the
\* outcomes of a batch, once pushed, are one contiguous block holding one
\* outcome per story of the batch in the batch's order, whatever the order in
\* which the batches complete.
C34_ContiguousBlocks ==
  \A b \in BatchIds :
    \/ PositionsOf(b) = {}
    \/ \E o \in 0..Len(results) :
         /\ PositionsOf(b) = (o + 1)..(o + Len(BatchOf(b)))
         /\ \A k \in 1..Len(BatchOf(b)) : results[o + k].story = BatchOf(b)[k]

\* C34 witness: a parallel run resolved in which two batches of two stories ran
\* at the same time and the later launched one completed first.
C34_Witness ==
  /\ IsParallelRun /\ pc = "resolved"
  /\ NumBatches >= 2 /\ Len(BatchOf(1)) = 2
  /\ PositionsOf(1) = {1, 2} /\ PositionsOf(0) = {3, 4}

\* results.filter(r => r.success).length, the successCount of the summary
SuccessCount == Len(SelectSeq(results, LAMBDA r : r.success))

\* the failed outcomes among the returned ones
FailedCount == Len(SelectSeq(results, LAMBDA r : ~r.success))

\* errors.length, the errorCount of the summary
ErrorCount == Len(errors)

\* C35: when an inspection run resolves, the successful and the failed
\* outcomes together are the returned outcomes, and the errors array holds as
\* many records as there are failed outcomes.
C35_CountersAgree ==
  (fn \in {"seq", "par"} /\ pc = "resolved")
  => /\ SuccessCount + FailedCount = Len(results)
     /\ ErrorCount = FailedCount

\* C35 witness: a run resolved with successful and failed outcomes, the
\* failures being those of a batch whose batch call failed with no fallback.
C35_Witness ==
  /\ fn \in {"seq", "par"} /\ pc = "resolved"
  /\ SuccessCount > 0 /\ FailedCount > 1
  /\ \E i \in 1..Len(errors) : errors[i].src = "batch"

\* C36: in the fallback loop a per-item call is never started in the same
\* step in which the previous per-item call of that batch returned, i.e.
\* without a wait in between, when delayBetweenRequests > 0.
C36_FallbackRequestsPaced ==
  [][\A b \in BatchIds :
       (task[b].pc = "fbCall" /\ task'[b].pc = "fbCall" /\ task'[b].j = task[b].j + 1)
       => cfg.delayBetweenRequests = 0]_vars

\* C37: a call crosses from one of processStoriesInBatches and
\* processStoriesInParallelBatches to the other at most once, whatever
\* enableParallel and maxConcurrentBatches are: the function that was handed the
\* work never hands it back, it processes the batches itself.
C37_DelegatesAtMostOnce ==
  fn \in {"seq", "par"}
  => /\ hops <= 1
     /\ (hops = 1 /\ fn = "seq") => ~(cfg.enableParallel /\ cfg.maxConcurrentBatches > 1)
     /\ (hops = 1 /\ fn = "par") => ~(~cfg.enableParallel \/ cfg.maxConcurrentBatches <= 1)

\* C37 witness: a call of processStoriesInParallelBatches with enableParallel
\* = false and maxConcurrentBatches > 1 was handed to processStoriesInBatches,
\* which processed the batches and resolved.
C37_Witness ==
  /\ hops = 1 /\ pc = "resolved" /\ Len(results) > 1
  /\ fn = "seq" /\ ~cfg.enableParallel /\ cfg.maxConcurrentBatches > 1

\* the catch block of Step 4 swallowed an error of the R2 upload step
UploadStepFailed == \E i \in 1..Len(errors) : errors[i] = "r2"

\* the steps behind Step 4 that the configuration and the inspections call for
LaterSteps ==
  (IF cfg.runEmbeddings \/ cfg.runInspection THEN <<"ai">> ELSE <<>>)
  \o (IF RunsTextEmbeddings(results) THEN <<"text">> ELSE <<>>)
  \o (IF cfg.milvusConfigured THEN <<"milvus">> ELSE <<>>)

\* C38: once an error was raised in the R2 upload step, the pipeline is behind
\* that step and is not rejected by it (it rejects only from a later step it
\* has entered); the AI operations are given the stories as they were before
\* the upload, no story ever carries an R2 URL, and a pipeline that resolves
\* has entered every later step that is configured.
C38_UploadErrorSwallowed ==
  (fn = "analyze" /\ UploadStepFailed)
  => /\ pc \notin {"r2", "r2Upload"}
     /\ pc = "rejected" => Len(launchLog) > 1
     /\ task \in {<<>>, StoriesBeforeUpload}
     /\ \A k \in 1..Len(results) : ~results[k].screenshotR2Url
     /\ pc = "resolved" => launchLog = <<"r2">> \o LaterSteps

\* C38 witness: the upload step raised an error, and the pipeline went through
\* the AI operations, the text embeddings and the Milvus upload and resolved.
C38_Witness ==
  /\ fn = "analyze" /\ UploadStepFailed /\ pc = "resolved"
  /\ launchLog = <<"r2", "ai", "text", "milvus">>
  /\ \E k \in 1..Len(stories) : stories[k].hasShot
  /\ task = StoriesBeforeUpload

\* C39: once runAnalysis or runDeployment has settled, resolved or rejected,
\* no file exists at the path of the temporary archive.
C39_ArchiveRemoved ==
  (fn \in {"runAnalysis", "runDeployment"} /\ pc \in {"resolved", "rejected"})
  => ~task.file
====
